---- MODULE Spec2Model ----
(***************************************************************************)
(* RSK reverse SOCKS5 proxy, server side: the port registry                *)
(* (pkg/rsk/server/registry.go), the connection limiter (limiter.go), the  *)
(* per-IP rate limiter (socks.go, second half), the control-connection     *)
(* handler with its accept loop (server.go), and the SOCKS manager's       *)
(* dialer (socks.go, first half) with the counting sub-stream its tests    *)
(* use; client side: the reconnect loop of Client.Run                      *)
(* (pkg/rsk/client/client.go, both versions).                              *)
(***************************************************************************)
EXTENDS Integers, Sequences, FiniteSets, TLC

\* ------------------------------------------------------------------ bounds
NumPorts == 2
MaxReserves == 2
NumCallers == 2
MaxCap == 1
ConnReserves == 1
NumConns == 3
MaxClients == 2
NumStreams == 1
MaxCloses == 2
MaxAttempts == 3
MaxRestarts == 2

\* the callers of Manager.Start
NumStarters == 2

\* the longest list of custom blocked networks of an AddressFilter
MaxNets == 1

\* the most addresses a hostname resolves to
MaxResolved == 2

\* the most bytes the target sends back over a sub-stream
MaxBytes == 1

\* the most bytes that follow a message in the buffer a reader reads from
MaxTail == 1

\* messages.go, lines 9-20, 184-187 and 298-301
Version == 1

MaxTokenLen == 255

MinTokenLen == 1

MaxPortCount == 16

MinPortCount == 1

MaxNameLen == 64

MaxHelloSize == 2048

MaxAcceptedPortCount == 16

MaxMessageLen == 255

MaxAddrLen == 1024

MinAddrLen == 1

\* Config.MaxAuthFailures and Config.AuthBlockDuration, the latter as one tick of the clock
MaxFailures == 2
BlockDuration == 1
\* the clock runs until the sweep of the rate limiter has had its turn
MaxTime == BlockDuration * 2 + 1

Ports == 1..NumPorts
\* the port lists of a HELLO or of a registry call: one or two ports, in order
PortSeqs == {<<p>> : p \in Ports} \cup {<<p, q>> : p, q \in Ports}
\* the port lists handed to ReleasePorts; its loop treats each port on its own, so
\* one order of every set of one or two ports is drawn
ReleaseArgs == {ports \in PortSeqs : Len(ports) = 1 \/ ports[1] < ports[2]}
Callers == 1..NumCallers
Caps == 1..MaxCap
Reservations == 1..MaxReserves
Conns == 1..NumConns
\* the goroutines that call Manager.Start, once each
Starters == 1..NumStarters
\* the counting sub-streams
Streams == 1..NumStreams
\* the remote addresses of the control connections
IPs == {"198.51.100.7"}
\* who allocates slots: the reservations of a registry caller, or the control connections
Owners == 1..(IF MaxReserves > NumConns THEN MaxReserves ELSE NumConns)
SlotIds == 1..(Cardinality(Owners) * NumPorts)

VARIABLES
  slots,      \* Registry.slots: port -> slot object id, 0 when the key is absent
  slotObj,    \* the ClientSlot objects ever allocated: id -> fields
  closures,   \* the release closures ReservePorts returned: reservation -> [ports captured, released]
  lis,        \* the SOCKS net.Listener opened for each slot object: [open, closes]
  mu,         \* 0, or the slot a BindSession call is writing while it holds Registry.mu
  thr,        \* data-plane callers of IncrementConnections / DecrementConnections
  grants,     \* reservations granted and not yet released: <<reservation, port>>
  sem,        \* ConnectionLimiter.semaphore: the number of elements in the channel
  limiters,   \* IPRateLimiter.limiters: ip -> [exists, failures, blockedAt]
  now,        \* the wall clock read by time.Now
  conns,      \* the control connections and the handler goroutine of each
  socks,      \* the SOCKS manager: what the last dialer call did, and the counting sub-streams
  client,     \* a Client inside Run: its position, its context, the attempts it made
  manager,    \* the client Manager and its auto-restart loop
  start,      \* Server.Start: its context, its listening socket, whether it has returned
  filter,     \* an AddressFilter and the last call of IsAllowed
  stream,     \* one sub-stream of the client and the handleStream goroutine serving it
  codec,      \* a message, the buffer a writer of proto filled, and what a reader made of it
  bindCall    \* the last call of BindSession: its port, what it found and what it returned

vars == <<slots, slotObj, closures, lis, mu, thr, grants, sem, limiters, now, conns, socks,
          client, manager, start, filter, stream, codec, bindCall>>

\* the client's side of a sub-stream
egress == <<filter, stream>>

\* the components untouched by the handlers, by Client.Run and by the Manager
outer == <<start, egress, codec, bindCall>>

\* the components around Client.Run, untouched by the server and by Run itself
more == <<manager, outer>>

\* the state of server.go and socks.go, untouched by direct calls of the registry
srv == <<sem, limiters, now, conns, socks, client, more>>

\* ------------------------------------------------------------ registry.go
NoSlot == [made |-> FALSE, session |-> FALSE, listener |-> 0, maxConns |-> 0,
           activeConns |-> 0, stopOnce |-> FALSE]

NewSlot == [NoSlot EXCEPT !.made = TRUE]

NoListener == [open |-> FALSE, closes |-> 0]

NoClosure == [ports |-> {}, released |-> FALSE]

\* a closure that has run: released is set, and the ports it captured are read by
\* no later call
SpentClosure == [ports |-> {}, released |-> TRUE]

\* a goroutine of the data plane. slot: the *ClientSlot it read from the map; current:
\* the value its atomic load returned; result: what its last IncrementConnections
\* returned; bound: whether that call found the slot already bound
IdleThread == [pc |-> "idle", port |-> 0, slot |-> 0, current |-> 0, result |-> "none",
               bound |-> FALSE]

\* the ClientSlot allocated by reservation r for port p
SlotId(r, p) == (r - 1) * NumPorts + p

SetOf(ports) == {ports[i] : i \in 1..Len(ports)}

MinOf(S) == CHOOSE x \in S : \A y \in S : x <= y

\* the reservation that allocated slot object s
OwnerOf(s) == (s - 1) \div NumPorts + 1

\* a slot object something still points to: an entry of the map, a BindSession in
\* progress, a caller of the counters, or the maps of a running handler
Referenced(s) ==
  \/ \E p \in Ports : slots[p] = s
  \/ mu = s
  \/ \E t \in Callers : thr[t].slot = s
  \/ OwnerOf(s) \in Conns /\ conns[OwnerOf(s)].pc \notin {"new", "rejected", "done"}

\* the slot objects as a registry call finds them. delete(r.slots, port) drops the
\* last pointer to a ClientSlot, no later statement can read it, and it is put back
\* to its initial value
Kept(s) == IF Referenced(s) THEN slotObj[s] ELSE NoSlot

Heap == [s \in DOMAIN slotObj |-> Kept(s)]

\* the listeners likewise: one that is closed and whose slot nothing points to is
\* forgotten; an open listener stays, for it keeps its port
Listeners ==
  [s \in DOMAIN lis |-> IF lis[s].open \/ Referenced(s) THEN lis[s] ELSE NoListener]

\* a first loop that looks at the first requested port only
FirstInUse_HeadOnly(m, ports) == IF m[ports[1]] # 0 THEN ports[1] ELSE 0

\* ReservePorts, first loop: the Port of the PortInUseError returned, 0 for a nil error
FirstInUse(m, ports) ==
  LET hit == {i \in 1..Len(ports) : m[ports[i]] # 0}
  IN IF hit = {} THEN 0 ELSE ports[MinOf(hit)]

\* ReservePorts, second loop: a fresh placeholder slot for every requested port
InsertSlots(m, ports, r) ==
  [p \in DOMAIN m |-> IF p \in SetOf(ports) THEN SlotId(r, p) ELSE m[p]]

\* one loop that inserts each port as it passes the check, and returns at a collision
ReservePorts_InsertAsChecked(r, ports) ==
  /\ mu = 0
  /\ LET hit == {i \in 1..Len(ports) : slots[ports[i]] # 0}
         done == IF hit = {} THEN ports ELSE SubSeq(ports, 1, MinOf(hit) - 1)
     IN /\ slots' = InsertSlots(slots, done, r)
        /\ slotObj' = [s \in DOMAIN slotObj |->
                         IF \E p \in SetOf(done) : s = SlotId(r, p)
                         THEN NewSlot ELSE Kept(s)]
        /\ closures' = IF hit = {}
                       THEN [closures EXCEPT ![r] = [ports |-> SetOf(ports), released |-> FALSE]]
                       ELSE closures
  /\ UNCHANGED mu

ReservePorts(r, ports) ==
  /\ mu = 0
  /\ LET bad == FirstInUse(slots, ports)
     IN IF bad # 0
        THEN UNCHANGED <<slots, slotObj, closures>>
        ELSE /\ slots' = InsertSlots(slots, ports, r)
             /\ slotObj' = [s \in DOMAIN slotObj |->
                              IF \E p \in SetOf(ports) : s = SlotId(r, p)
                              THEN NewSlot ELSE Kept(s)]
             /\ closures' = [closures EXCEPT ![r] = [ports |-> SetOf(ports), released |-> FALSE]]
  /\ UNCHANGED mu

\* the closure ReservePorts returned to reservation r
Released(m, closure) == [p \in DOMAIN m |-> IF p \in closure.ports THEN 0 ELSE m[p]]

\* a closure without the released flag: each call deletes the ports again
ReleaseFunc_EveryCall(r) ==
  /\ mu = 0
  /\ closures[r] # NoClosure
  /\ closures' = [closures EXCEPT ![r].released = TRUE]
  /\ slots' = Released(slots, closures[r])
  /\ slotObj' = Heap
  /\ UNCHANGED mu

\* registry.go, lines 55-68
ReleaseFunc(r) ==
  /\ mu = 0
  /\ closures[r] # NoClosure
  /\ IF closures[r].released
     THEN UNCHANGED <<slots, slotObj, closures>>
     ELSE /\ closures' = [closures EXCEPT ![r] = SpentClosure]
          /\ slots' = Released(slots, closures[r])
          /\ slotObj' = Heap
  /\ UNCHANGED mu

\* BindSession, lines 97-101: the writes up to and including maxConns
BindFields(o, listener, maxConns) ==
  [o EXCEPT !.session = TRUE, !.listener = listener, !.maxConns = maxConns]

\* BindSession, line 102
BindReset(o) == [o EXCEPT !.activeConns = 0]

\* a lookup that reports every slot of the map as found
GetSession_AnySlot(port) == slots[port] # 0

\* GetSession, lines 116-126: whether a session is found for the port
GetSession(port) == slots[port] # 0 /\ slotObj[slots[port]].session

\* BindSession, lines 91-94: whether it returns PortNotReservedError
BindError(m, port) == m[port] = 0

\* BindSession as the callers that take Registry.mu see it: one critical section
BindSession(port, listener, maxConns) ==
  /\ mu = 0
  /\ IF BindError(slots, port)
     THEN UNCHANGED slotObj
     ELSE slotObj' = [Heap EXCEPT ![slots[port]] =
                        BindReset(BindFields(@, listener, maxConns))]
  /\ UNCHANGED <<slots, closures, mu>>

\* BindSession as the lock-free compare-and-swap of IncrementConnections sees it:
\* the critical section up to the write of maxConns ...
BindSessionBegin(port, listener, maxConns) ==
  /\ mu = 0
  /\ IF BindError(slots, port)
     THEN UNCHANGED <<slotObj, mu>>
     ELSE /\ slotObj' = [Heap EXCEPT ![slots[port]] = BindFields(@, listener, maxConns)]
          /\ mu' = slots[port]
  /\ UNCHANGED <<slots, closures>>

\* ... and its last write, of activeConns, with the deferred Unlock
BindSessionEnd ==
  /\ mu # 0
  /\ slotObj' = [slotObj EXCEPT ![mu] = BindReset(@)]
  /\ mu' = 0
  /\ UNCHANGED <<slots, closures>>

CloseListener(l, id) ==
  IF id = 0 THEN l ELSE [l EXCEPT ![id] = [open |-> FALSE, closes |-> @.closes + 1]]

\* one iteration of the loop of ReleasePorts on the registry value st
ReleaseOne(st, port) ==
  LET s == st.slots[port]
      o == st.slotObj[s]
  IN IF s = 0 THEN st
     ELSE [slots   |-> [st.slots EXCEPT ![port] = 0],
           slotObj |-> [st.slotObj EXCEPT ![s].stopOnce = TRUE],
           lis     |-> IF o.stopOnce THEN st.lis ELSE CloseListener(st.lis, o.listener)]

\* a loop that returns after its first port instead of continuing
ReleaseLoop_FirstOnly(st, ports) ==
  IF ports = <<>> THEN st ELSE ReleaseOne(st, Head(ports))

RECURSIVE ReleaseLoop(_, _)
ReleaseLoop(st, ports) ==
  IF ports = <<>> THEN st ELSE ReleaseLoop(ReleaseOne(st, Head(ports)), Tail(ports))

ReleasePorts(ports) ==
  /\ mu = 0
  /\ IF \A p \in SetOf(ports) : slots[p] = 0
     THEN UNCHANGED <<slots, slotObj, lis>>
     ELSE LET st == ReleaseLoop([slots |-> slots, slotObj |-> Heap, lis |-> Listeners], ports)
          IN /\ slots' = st.slots
             /\ slotObj' = st.slotObj
             /\ lis' = st.lis
  /\ UNCHANGED <<closures, mu>>

\* a test that lets the counter pass maxConns by one
LimitReached_OffByOne(current, maxConns) == current > maxConns

\* IncrementConnections, line 168: the test that refuses the increment
LimitReached(current, maxConns) == current >= maxConns

\* IncrementConnections, lines 157-163: the lookup under the read lock
IncLookup(t, port) ==
  /\ mu = 0
  /\ thr[t].pc = "idle"
  /\ IF slots[port] = 0
     THEN thr' = [thr EXCEPT ![t] = [IdleThread EXCEPT !.result = "false"]]
     ELSE thr' = [thr EXCEPT ![t] = [pc |-> "incLoad", port |-> port, slot |-> slots[port],
                                     current |-> 0, result |-> "none",
                                     bound |-> slotObj[slots[port]].session]]
  /\ UNCHANGED <<slots, slotObj, closures, mu>>

\* lines 167-170: the atomic load and the comparison with maxConns
IncLoad(t) ==
  /\ thr[t].pc = "incLoad"
  /\ LET o == slotObj[thr[t].slot]
     IN IF LimitReached(o.activeConns, o.maxConns)
        THEN thr' = [thr EXCEPT ![t].pc = "idle", ![t].result = "false"]
        ELSE thr' = [thr EXCEPT ![t].pc = "incCAS", ![t].current = o.activeConns]
  /\ UNCHANGED <<slots, slotObj, closures, mu>>

\* lines 171-173: the compare-and-swap; a failed swap loops back to the load
IncCAS(t) ==
  /\ thr[t].pc = "incCAS"
  /\ IF slotObj[thr[t].slot].activeConns = thr[t].current
     THEN /\ slotObj' = [slotObj EXCEPT ![thr[t].slot].activeConns = @ + 1]
          /\ thr' = [thr EXCEPT ![t].pc = "holding", ![t].current = 0, ![t].result = "true"]
     ELSE /\ thr' = [thr EXCEPT ![t].pc = "incLoad", ![t].current = 0]
          /\ UNCHANGED slotObj
  /\ UNCHANGED <<slots, closures, mu>>

\* DecrementConnections, lines 179-185: the lookup under the read lock
DecLookup(t) ==
  /\ mu = 0
  /\ thr[t].pc = "holding"
  /\ IF slots[thr[t].port] = 0
     THEN thr' = [thr EXCEPT ![t] = IdleThread]
     ELSE thr' = [thr EXCEPT ![t] = [IdleThread EXCEPT !.pc = "decAdd", !.port = thr[t].port,
                                                      !.slot = slots[thr[t].port]]]
  /\ UNCHANGED <<slots, slotObj, closures, mu>>

\* line 187: the atomic add of -1
DecAdd(t) ==
  /\ thr[t].pc = "decAdd"
  /\ slotObj' = [slotObj EXCEPT ![thr[t].slot].activeConns = @ - 1]
  /\ thr' = [thr EXCEPT ![t] = IdleThread]
  /\ UNCHANGED <<slots, closures, mu>>

\* reservations that still hold their ports after a step
LiveGrants(g, m) == {x \in g : m[x[2]] # 0}

\* ------------------------------------------ the registry under its API callers
\* the listener a caller opens on a slot's port, to hand to BindSession
OpenListener(l, id) ==
  IF id = 0 \/ l[id] # NoListener THEN l ELSE [l EXCEPT ![id] = [open |-> TRUE, closes |-> 0]]

\* -------------------------------------------------------------- limiter.go
\* an Acquire that admits one handler more than the channel holds
Acquire_OneMore(n) == n <= MaxClients

\* Acquire: whether the non-blocking send on the semaphore goes through
Acquire(n) == n < MaxClients

\* a Release that takes nothing from the channel
Release_Keep(n) == n

\* Release: the non-blocking receive
Release(n) == IF n > 0 THEN n - 1 ELSE n

Available(n) == MaxClients - n

\* ---------------------------------------------------- socks.go, IPRateLimiter
\* the zero time.Time of a blockedAt that was never set
ZeroTime == 0 - 1

NoEntry == [exists |-> FALSE, failures |-> 0, blockedAt |-> ZeroTime]

FreshEntry == [exists |-> TRUE, failures |-> 0, blockedAt |-> ZeroTime]

\* RecordFailure: the map after the call made at time t
RecordFailure(l, ip, t) ==
  LET entry == IF l[ip].exists THEN l[ip] ELSE FreshEntry
      failures == entry.failures + 1
  IN [l EXCEPT ![ip] = [entry EXCEPT !.failures = failures,
                                     !.blockedAt = IF failures >= MaxFailures THEN t ELSE @]]

\* a threshold test that lets one failure more through
ShouldBlock_Late(l, ip) == (IF l[ip].exists THEN l[ip].failures ELSE 0) + 1 > MaxFailures

\* RecordFailure: the value it returns
ShouldBlock(l, ip) == (IF l[ip].exists THEN l[ip].failures ELSE 0) + 1 >= MaxFailures

IsBlocked(l, ip, t) ==
  /\ l[ip].exists
  /\ l[ip].blockedAt # ZeroTime
  /\ t - l[ip].blockedAt < BlockDuration

\* a Reset that unblocks the address and keeps its failure count
Reset_KeepCount(l, ip) == [l EXCEPT ![ip].blockedAt = ZeroTime]

Reset(l, ip) == [l EXCEPT ![ip] = NoEntry]

\* a sweep that evicts an entry as soon as its block has run out
cleanupLimiters_Early(l, t) ==
  [ip \in DOMAIN l |->
     IF l[ip].exists /\ l[ip].blockedAt # ZeroTime /\ t - l[ip].blockedAt >= BlockDuration
     THEN NoEntry ELSE l[ip]]

\* cleanup, run by cleanupLoop at each tick of its ticker
cleanupLimiters(l, t) ==
  [ip \in DOMAIN l |->
     IF l[ip].exists /\ l[ip].blockedAt # ZeroTime /\ t - l[ip].blockedAt > BlockDuration * 2
     THEN NoEntry ELSE l[ip]]

\* ---------------------------------------------------------------- server.go
\* a control connection and the locals of its handler. pc: where the handler stands;
\* ip: remoteIP; ports: hello.Ports; i: the index of the bind loop; tcpL: the ports
\* whose placeholder in tcpListeners is open; socksL: the keys of socksListeners;
\* reserved: cleanup is deferred (portsReserved in the earlier handler); cleaned:
\* cleanupOnce has fired. read, sent, closed and released record what was done to the
\* connection and the limiter, recorded, shouldBlock and blocked what the rate limiter
\* was asked, exit the return statement taken. A local that no later statement reads
\* is put back to its initial value.
NewConn == [pc |-> "new", ip |-> "", ports |-> <<>>, i |-> 0, tcpL |-> {}, socksL |-> {},
            reserved |-> FALSE, cleaned |-> FALSE, read |-> FALSE, sent |-> "none",
            recorded |-> 0, shouldBlock |-> FALSE, blocked |-> FALSE, closed |-> FALSE,
            released |-> 0, exit |-> "none"]

PortMin == MinOf(Ports)

PortMax == NumPorts

\* the port lists a HELLO can carry: one port, two ports, another port, and a port
\* above portMax
HelloPorts == {<<PortMin>>, <<PortMin, PortMax>>, <<PortMax>>, <<PortMax + 1>>}

\* the HELLO messages a client can send
Hellos == {[kind |-> k, ports |-> <<>>] : k \in {"garbled", "magic", "version"}}
            \cup {[kind |-> k, ports |-> ports] : k \in {"token", "ok"}, ports \in HelloPorts}

\* lines 103-113: some requested port lies outside [portMin, portMax]
Forbidden(ports) == \E j \in 1..Len(ports) : ports[j] < PortMin \/ ports[j] > PortMax

\* a reply that is withheld once the address becomes blocked
AuthReply_Silent(shouldBlock) == IF shouldBlock THEN "none" ELSE "AUTH_FAIL"

\* lines 86-98: the status of the reply to a wrong token, shouldBlock being what
\* RecordFailure returned
AuthReply(shouldBlock) == "AUTH_FAIL"

\* the handlers started and not yet returned
InFlight == {c \in Conns : conns[c].pc \notin {"new", "rejected", "done"}}

\* a return statement before the reservation
Leave(r, why) == [r EXCEPT !.pc = "ret", !.exit = why, !.ip = "", !.ports = <<>>]

\* a return statement after the handler ran cleanup
LeaveClean(r, why) ==
  [r EXCEPT !.pc = "ret", !.exit = why, !.cleaned = TRUE, !.ports = <<>>, !.i = 0,
            !.tcpL = {}, !.socksL = {}]

\* the connection once its handler has returned: closed, its limiter slot given back,
\* and whatever placeholder the handler left open
Returned(r) ==
  [NewConn EXCEPT !.pc = "done", !.closed = TRUE, !.released = r.released + 1,
                  !.blocked = r.blocked, !.tcpL = r.tcpL]

\* Server.Start, lines 305-342: one turn of the accept loop for a connection from ip
Accept(c, ip) ==
  /\ conns[c].pc = "new"
  /\ \A d \in Conns : d < c => conns[d].pc # "new"
  /\ IF Acquire(sem)
     THEN /\ sem' = sem + 1
          /\ conns' = [conns EXCEPT ![c].pc = "check", ![c].ip = ip]
     ELSE /\ sem' = sem
          /\ conns' = [conns EXCEPT ![c].pc = "rejected", ![c].closed = TRUE]
  /\ UNCHANGED <<slots, slotObj, closures, lis, mu, thr, grants, limiters, now>>

\* a handler that answers a blocked address before it returns
HCheckBlocked_Reply(c, ok) ==
  /\ conns[c].pc = "check"
  /\ conns' = [conns EXCEPT ![c] =
                 IF ~ok THEN Leave(@, "connError")
                 ELSE IF IsBlocked(limiters, @.ip, now)
                 THEN [Leave(@, "blocked") EXCEPT !.blocked = TRUE, !.sent = "AUTH_FAIL"]
                 ELSE [@ EXCEPT !.pc = "hello"]]
  /\ UNCHANGED <<slots, slotObj, closures, lis, mu, thr, grants, sem, limiters, now>>

\* handleClientConnection, lines 42-59: the remote address, the IsBlocked test and the
\* read deadline; ok is whether SplitHostPort and SetReadDeadline succeed
HCheckBlocked(c, ok) ==
  /\ conns[c].pc = "check"
  /\ conns' = [conns EXCEPT ![c] =
                 IF ~ok THEN Leave(@, "connError")
                 ELSE IF IsBlocked(limiters, @.ip, now)
                 THEN [Leave(@, "blocked") EXCEPT !.blocked = TRUE]
                 ELSE [@ EXCEPT !.pc = "hello"]]
  /\ UNCHANGED <<slots, slotObj, closures, lis, mu, thr, grants, sem, limiters, now>>

\* a handler that validates the port range before it compares the token
HHello_PortsFirst(c, hello) ==
  /\ conns[c].pc = "hello"
  /\ IF hello.kind \in {"garbled", "magic", "version"}
     THEN /\ conns' = [conns EXCEPT ![c] = [Leave(@, "badHello") EXCEPT
                                              !.read = TRUE, !.sent = "BAD_REQUEST"]]
          /\ UNCHANGED limiters
     ELSE IF Forbidden(hello.ports)
     THEN /\ conns' = [conns EXCEPT ![c] = [Leave(@, "forbidden") EXCEPT
                                              !.read = TRUE, !.sent = "PORT_FORBIDDEN"]]
          /\ UNCHANGED limiters
     ELSE IF hello.kind = "token"
     THEN /\ limiters' = RecordFailure(limiters, conns[c].ip, now)
          /\ conns' = [conns EXCEPT ![c] = [Leave(@, "authFail") EXCEPT
                          !.read = TRUE,
                          !.recorded = @ + 1,
                          !.shouldBlock = ShouldBlock(limiters, conns[c].ip),
                          !.sent = AuthReply(ShouldBlock(limiters, conns[c].ip))]]
     ELSE /\ limiters' = Reset(limiters, conns[c].ip)
          /\ IF Forbidden(hello.ports)
             THEN conns' = [conns EXCEPT ![c] = [Leave(@, "forbidden") EXCEPT
                                                   !.read = TRUE, !.sent = "PORT_FORBIDDEN"]]
             ELSE conns' = [conns EXCEPT ![c].pc = "reserve", ![c].read = TRUE,
                                         ![c].ip = "", ![c].ports = hello.ports]
  /\ UNCHANGED <<slots, slotObj, closures, lis, mu, thr, grants, sem, now>>

\* a handler that resets the failure record only once the ports have passed
HHello_ResetAfterPorts(c, hello) ==
  /\ conns[c].pc = "hello"
  /\ IF hello.kind \in {"garbled", "magic", "version"}
     THEN /\ conns' = [conns EXCEPT ![c] = [Leave(@, "badHello") EXCEPT
                                              !.read = TRUE, !.sent = "BAD_REQUEST"]]
          /\ UNCHANGED limiters
     ELSE IF hello.kind = "token"
     THEN /\ limiters' = RecordFailure(limiters, conns[c].ip, now)
          /\ conns' = [conns EXCEPT ![c] = [Leave(@, "authFail") EXCEPT
                          !.read = TRUE,
                          !.recorded = @ + 1,
                          !.shouldBlock = ShouldBlock(limiters, conns[c].ip),
                          !.sent = AuthReply(ShouldBlock(limiters, conns[c].ip))]]
     ELSE /\ limiters' = IF Forbidden(hello.ports) THEN limiters
                      ELSE Reset(limiters, conns[c].ip)
          /\ IF Forbidden(hello.ports)
             THEN conns' = [conns EXCEPT ![c] = [Leave(@, "forbidden") EXCEPT
                                                   !.read = TRUE, !.sent = "PORT_FORBIDDEN"]]
             ELSE conns' = [conns EXCEPT ![c].pc = "reserve", ![c].read = TRUE,
                                         ![c].ip = "", ![c].ports = hello.ports]
  /\ UNCHANGED <<slots, slotObj, closures, lis, mu, thr, grants, sem, now>>

\* lines 62-113: ReadHello, the MAGIC, VERSION and token checks, Reset and the range check
HHello(c, hello) ==
  /\ conns[c].pc = "hello"
  /\ IF hello.kind \in {"garbled", "magic", "version"}
     THEN /\ conns' = [conns EXCEPT ![c] = [Leave(@, "badHello") EXCEPT
                                              !.read = TRUE, !.sent = "BAD_REQUEST"]]
          /\ UNCHANGED limiters
     ELSE IF hello.kind = "token"
     THEN /\ limiters' = RecordFailure(limiters, conns[c].ip, now)
          /\ conns' = [conns EXCEPT ![c] = [Leave(@, "authFail") EXCEPT
                          !.read = TRUE,
                          !.recorded = @ + 1,
                          !.shouldBlock = ShouldBlock(limiters, conns[c].ip),
                          !.sent = AuthReply(ShouldBlock(limiters, conns[c].ip))]]
     ELSE /\ limiters' = Reset(limiters, conns[c].ip)
          /\ IF Forbidden(hello.ports)
             THEN conns' = [conns EXCEPT ![c] = [Leave(@, "forbidden") EXCEPT
                                                   !.read = TRUE, !.sent = "PORT_FORBIDDEN"]]
             ELSE conns' = [conns EXCEPT ![c].pc = "reserve", ![c].read = TRUE,
                                         ![c].ip = "", ![c].ports = hello.ports]
  /\ UNCHANGED <<slots, slotObj, closures, lis, mu, thr, grants, sem, now>>

\* a handler that, told a port is taken, releases the ports it asked for
HReserve_ReleaseOnFail(c) ==
  /\ conns[c].pc = "reserve"
  /\ mu = 0
  /\ IF FirstInUse(slots, conns[c].ports) # 0
     THEN LET st == ReleaseLoop([slots |-> slots, slotObj |-> slotObj, lis |-> lis],
                                conns[c].ports)
          IN /\ slots' = st.slots
             /\ slotObj' = st.slotObj
             /\ lis' = st.lis
             /\ grants' = LiveGrants(grants, st.slots)
             /\ conns' = [conns EXCEPT ![c] = [Leave(@, "portInUse") EXCEPT !.sent = "PORT_IN_USE"]]
             /\ UNCHANGED closures
     ELSE /\ ReservePorts(c, conns[c].ports)
          /\ conns' = [conns EXCEPT ![c].pc = "listen", ![c].reserved = TRUE]
          /\ grants' = grants \cup {<<c, p>> : p \in SetOf(conns[c].ports)}
          /\ UNCHANGED lis
  /\ UNCHANGED <<mu, thr, sem, limiters, now>>

\* lines 122-143: ReservePorts, the PORT_IN_USE reply, and the deferred cleanup
HReserve(c) ==
  /\ conns[c].pc = "reserve"
  /\ ReservePorts(c, conns[c].ports)
  /\ IF FirstInUse(slots, conns[c].ports) # 0
     THEN /\ conns' = [conns EXCEPT ![c] = [Leave(@, "portInUse") EXCEPT !.sent = "PORT_IN_USE"]]
          /\ UNCHANGED grants
     ELSE /\ conns' = [conns EXCEPT ![c].pc = "listen", ![c].reserved = TRUE]
          /\ grants' = grants \cup {<<c, p>> : p \in SetOf(conns[c].ports)}
  /\ UNCHANGED <<lis, thr, sem, limiters, now>>

\* a cleanup that closes the listeners and leaves the ports reserved
cleanup_NoRelease(st, c, socksL, ports) ==
  [st EXCEPT !.lis = [s \in DOMAIN st.lis |->
                        IF \E p \in socksL : s = SlotId(c, p)
                        THEN [open |-> FALSE, closes |-> st.lis[s].closes + 1]
                        ELSE st.lis[s]]]

\* the cleanup closure, lines 132-142, when cleanupOnce lets it run: Close on every
\* listener of socksListeners and of tcpListeners, then ReleasePorts(ports)
cleanup(st, c, socksL, ports) ==
  ReleaseLoop([st EXCEPT !.lis = [s \in DOMAIN st.lis |->
                                    IF \E p \in socksL : s = SlotId(c, p)
                                    THEN [open |-> FALSE, closes |-> st.lis[s].closes + 1]
                                    ELSE st.lis[s]]],
              ports)

\* the registry and the listeners as cleanup reads them
RegState == [slots |-> slots, slotObj |-> slotObj, lis |-> lis]

\* the registry and the listeners after a call of cleanup by the handler of c
AfterCleanup(c) ==
  IF conns[c].cleaned THEN RegState
  ELSE cleanup(RegState, c, conns[c].socksL, conns[c].ports)

\* a call of cleanup before a return statement
RunCleanup(c) ==
  /\ mu = 0
  /\ LET st == AfterCleanup(c)
     IN /\ slots' = st.slots
        /\ slotObj' = st.slotObj
        /\ lis' = st.lis
        /\ grants' = LiveGrants(grants, st.slots)
  /\ UNCHANGED <<closures, mu>>

\* net.Listen fails at the k-th port, or at none when k = 0: the ports taken so far
\* must differ, for a port the handler already listens on cannot be bound again
ListenOutcomes(ports) ==
  {k \in 0..Len(ports) :
     \A a, b \in 1..(IF k = 0 THEN Len(ports) ELSE k - 1) : a # b => ports[a] # ports[b]}

\* a handler that goes on to the session although the write of HELLO_RESP failed
HListen_IgnoreWriteError(c, k, out) ==
  /\ conns[c].pc = "listen"
  /\ k \in ListenOutcomes(conns[c].ports)
  /\ IF k = 0 /\ out \in {"ok", "noReply"}
     THEN /\ conns' = [conns EXCEPT ![c].pc = "bind", ![c].i = 1,
                                    ![c].sent = IF out = "ok" THEN "OK" ELSE @,
                                    ![c].tcpL = SetOf(conns[c].ports)]
          /\ UNCHANGED <<slots, slotObj, closures, lis, mu, grants>>
     ELSE /\ RunCleanup(c)
          /\ conns' = [conns EXCEPT ![c] =
                         IF k # 0
                         THEN [LeaveClean(@, "listenFail") EXCEPT !.sent = "PORT_IN_USE"]
                         ELSE [LeaveClean(@, out) EXCEPT !.sent = "OK"]]
  /\ UNCHANGED <<thr, sem, limiters, now>>

\* lines 145-197: the placeholder listeners, then HELLO_RESP{OK}, the deadlines and
\* yamux.Server. net.Listen fails at the k-th port (k = 0: at none); out is "ok",
\* "noReply" (SetWriteDeadline or the write fails) or "noSession" (ClearDeadline or
\* yamux.Server fails after the reply went out)
HListen(c, k, out) ==
  /\ conns[c].pc = "listen"
  /\ k \in ListenOutcomes(conns[c].ports)
  /\ IF k = 0 /\ out = "ok"
     THEN /\ conns' = [conns EXCEPT ![c].pc = "bind", ![c].i = 1, ![c].sent = "OK",
                                    ![c].tcpL = SetOf(conns[c].ports)]
          /\ UNCHANGED <<slots, slotObj, closures, lis, mu, grants>>
     ELSE /\ RunCleanup(c)
          /\ conns' = [conns EXCEPT ![c] =
                         IF k # 0
                         THEN [LeaveClean(@, "listenFail") EXCEPT !.sent = "PORT_IN_USE"]
                         ELSE [LeaveClean(@, out) EXCEPT
                                 !.sent = IF out = "noReply" THEN @ ELSE "OK"]]
  /\ UNCHANGED <<thr, sem, limiters, now>>

\* lines 207-230, one turn of the loop: the placeholder is closed, StartListener
\* opens the SOCKS listener (started is whether it succeeds) and BindSession binds it
HBind(c, started) ==
  /\ conns[c].pc = "bind"
  /\ LET port == conns[c].ports[conns[c].i]
         id == SlotId(c, port)
         last == conns[c].i = Len(conns[c].ports)
     IN IF ~started
        THEN /\ RunCleanup(c)
             /\ conns' = [conns EXCEPT ![c] = LeaveClean(@, "startFail")]
        ELSE IF BindError(slots, port)
        THEN /\ RunCleanup(c)
             /\ conns' = [conns EXCEPT ![c] = LeaveClean(@, "bindFail")]
        ELSE /\ BindSession(port, id, MaxCap)
             /\ lis' = OpenListener(lis, id)
             /\ conns' = [conns EXCEPT ![c].pc = IF last THEN "serving" ELSE "bind",
                                       ![c].i = IF last THEN 0 ELSE @ + 1,
                                       ![c].tcpL = @ \ {port},
                                       ![c].socksL = @ \cup {port}]
             /\ UNCHANGED grants
  /\ UNCHANGED <<thr, sem, limiters, now>>

\* line 238: the session's CloseChan fires
HSessionClosed(c) ==
  /\ conns[c].pc = "serving"
  /\ conns' = [conns EXCEPT ![c].pc = "ret", ![c].exit = "sessionEnd"]
  /\ UNCHANGED <<slots, slotObj, closures, lis, mu, thr, grants, sem, limiters, now>>

\* what a returned handler leaves of its objects: a slot object no longer in the
\* map and a closed listener are referenced by nobody and are dropped
DropSlots(st, c) ==
  [s \in DOMAIN st.slotObj |->
     IF OwnerOf(s) = c /\ \A p \in Ports : st.slots[p] # s THEN NoSlot ELSE st.slotObj[s]]

DropListeners(st, c) ==
  [s \in DOMAIN st.lis |->
     IF OwnerOf(s) = c /\ ~st.lis[s].open THEN NoListener ELSE st.lis[s]]

\* the return: the deferred calls in reverse order, cleanup (line 143, when the
\* handler got that far), conn.Close (lines 38-40) and connLimiter.Release (line 37)
HReturn(c) ==
  /\ conns[c].pc = "ret"
  /\ mu = 0
  /\ IF conns[c].reserved
     THEN LET st == AfterCleanup(c)
          IN /\ slots' = st.slots
             /\ slotObj' = DropSlots(st, c)
             /\ lis' = DropListeners(st, c)
             /\ grants' = LiveGrants(grants, st.slots)
             /\ closures' = [closures EXCEPT ![c] = NoClosure]
     ELSE UNCHANGED <<slots, slotObj, lis, grants, closures>>
  /\ sem' = Release(sem)
  /\ conns' = [conns EXCEPT ![c] =
                 Returned([@ EXCEPT !.tcpL = IF conns[c].reserved THEN {} ELSE @])]
  /\ UNCHANGED <<mu, thr, limiters, now>>

\* --------------------------- the handler of the earlier server.go (part_014)
\* a return statement of the earlier handler after the reservation; the placeholders
\* still open are closed or not
LeaveOld(r, why, closeAll) ==
  [r EXCEPT !.pc = "ret", !.exit = why, !.ports = <<>>, !.i = 0, !.socksL = {},
            !.tcpL = IF closeAll THEN {} ELSE @]

\* lines 133-196: the placeholder listeners, HELLO_RESP{OK}, the deadlines and
\* yamux.Server; a failure closes the placeholders opened so far
LListen(c, k, out) ==
  /\ conns[c].pc = "listen"
  /\ k \in ListenOutcomes(conns[c].ports)
  /\ conns' = [conns EXCEPT ![c] =
                 IF k # 0
                 THEN [LeaveOld(@, "listenFail", TRUE) EXCEPT !.sent = "PORT_IN_USE"]
                 ELSE IF out # "ok"
                 THEN [LeaveOld(@, out, TRUE) EXCEPT
                         !.sent = IF out = "noReply" THEN @ ELSE "OK"]
                 ELSE [@ EXCEPT !.pc = "bind", !.i = 1, !.sent = "OK",
                                !.tcpL = SetOf(conns[c].ports)]]
  /\ UNCHANGED <<slots, slotObj, closures, lis, mu, thr, grants, sem, limiters, now>>

\* lines 206-230, one turn of the loop, and portsReserved = false after the last
LBind(c, started) ==
  /\ conns[c].pc = "bind"
  /\ LET port == conns[c].ports[conns[c].i]
         id == SlotId(c, port)
         last == conns[c].i = Len(conns[c].ports)
     IN IF ~started
        THEN /\ conns' = [conns EXCEPT ![c] = LeaveOld(@, "startFail", TRUE)]
             /\ UNCHANGED <<slotObj, lis>>
        ELSE IF BindError(slots, port)
        THEN /\ conns' = [conns EXCEPT ![c] = LeaveOld([@ EXCEPT !.tcpL = @ \ {port}],
                                                       "bindFail", FALSE)]
             /\ UNCHANGED <<slotObj, lis>>
        ELSE /\ BindSession(port, id, MaxCap)
             /\ lis' = OpenListener(lis, id)
             /\ conns' = [conns EXCEPT ![c].pc = IF last THEN "serving" ELSE "bind",
                                       ![c].i = IF last THEN 0 ELSE @ + 1,
                                       ![c].reserved = ~last,
                                       ![c].tcpL = @ \ {port}]
  /\ UNCHANGED <<slots, closures, mu, thr, grants, sem, limiters, now>>

\* lines 237-243: the session's CloseChan fires and the handler calls ReleasePorts
LSessionClosed(c) ==
  /\ conns[c].pc = "serving"
  /\ ReleasePorts(conns[c].ports)
  /\ grants' = LiveGrants(grants, slots')
  /\ conns' = [conns EXCEPT ![c] = LeaveOld(@, "sessionEnd", FALSE)]
  /\ UNCHANGED <<thr, sem, limiters, now>>

\* the return: the deferred calls in reverse order, releaseFunc while portsReserved
\* holds (lines 127-132), conn.Close and connLimiter.Release (lines 35-38)
LReturn(c) ==
  /\ conns[c].pc = "ret"
  /\ mu = 0
  /\ LET st == [RegState EXCEPT !.slots = IF conns[c].reserved
                                          THEN Released(slots, closures[c]) ELSE @]
     IN /\ slots' = st.slots
        /\ slotObj' = DropSlots(st, c)
        /\ lis' = DropListeners(st, c)
        /\ grants' = LiveGrants(grants, st.slots)
  /\ closures' = [closures EXCEPT ![c] = NoClosure]
  /\ sem' = Release(sem)
  /\ conns' = [conns EXCEPT ![c] = Returned(@)]
  /\ UNCHANGED <<mu, thr, limiters, now>>

\* time passes. The clock is read only to stamp blockedAt and to compare with it, so
\* it is left at rest while no address carries a stamp
Tick ==
  /\ now < MaxTime
  /\ \E ip \in IPs : limiters[ip].blockedAt # ZeroTime
  /\ now' = now + 1
  /\ UNCHANGED <<slots, slotObj, closures, lis, mu, thr, grants, sem, limiters, conns, socks, client, more>>

\* cleanupLoop: the ticker fires
CleanupTick ==
  /\ limiters' = cleanupLimiters(limiters, now)
  /\ limiters' # limiters
  /\ UNCHANGED <<slots, slotObj, closures, lis, mu, thr, grants, sem, now, conns, socks, client, more>>

\* ---------------------------------------------------- socks.go, first half
NoDial == [made |-> FALSE, port |-> 0, opened |-> FALSE, closed |-> FALSE, err |-> "none"]

NoStream == [made |-> FALSE, port |-> 0, closed |-> FALSE, calls |-> 0, connCloses |-> 0]

\* how far a call of the dialer gets: OpenStream fails, SetReadDeadline fails,
\* WriteConnectReq fails, ClearDeadline fails, or the sub-stream is returned
DialOutcomes == {"openFail", "deadlineFail", "writeFail", "clearFail", "ok"}

\* createDialer, lines 29-55, one call of the function it returns for the listener
\* of port: the sub-stream is opened on the session, closed again when a later step
\* fails, and returned as it is otherwise; the registry is not consulted
createDialer(port, outcome) ==
  [made |-> TRUE, port |-> port,
   opened |-> outcome # "openFail",
   closed |-> outcome \in {"deadlineFail", "writeFail", "clearFail"},
   err |-> IF outcome = "ok" THEN "none"
           ELSE IF outcome = "openFail" THEN "open stream" ELSE "write"]

\* a SOCKS CONNECT arrives on the listener of port and the library calls the dialer
Dial(port, outcome) ==
  /\ socks' = [socks EXCEPT !.dial = createDialer(port, outcome)]
  /\ UNCHANGED <<slots, slotObj, closures, lis, mu, thr, grants, sem, limiters, now, conns, client, more>>

\* IncrementConnections(port) would refuse: no slot, or activeConns at maxConns
AtLimit(port) ==
  \/ slots[port] = 0
  \/ LimitReached(slotObj[slots[port]].activeConns, slotObj[slots[port]].maxConns)

\* connCountingStream as the tests build it: a caller whose IncrementConnections
\* succeeded wraps a connection for that port
Wrap(t, w) ==
  /\ thr[t].pc = "holding"
  /\ ~socks.streams[w].made
  /\ \A v \in 1..(w - 1) : socks.streams[v].made
  /\ socks' = [socks EXCEPT !.streams[w] = [NoStream EXCEPT !.made = TRUE, !.port = thr[t].port]]
  /\ thr' = [thr EXCEPT ![t] = IdleThread]
  /\ UNCHANGED <<slots, slotObj, closures, lis, mu, grants, sem, limiters, now, conns, client, more>>

\* a Close that does not look at whether the sub-stream was closed before
StreamClose_EveryTime(t, w) ==
  /\ thr[t].pc = "idle"
  /\ socks.streams[w].made
  /\ socks.streams[w].calls < MaxCloses
  /\ socks' = [socks EXCEPT !.streams[w].closed = TRUE,
                            !.streams[w].calls = @ + 1,
                            !.streams[w].connCloses = @ + 1]
  /\ thr' = [thr EXCEPT ![t] = [IdleThread EXCEPT !.pc = "holding", !.port = socks.streams[w].port]]
  /\ UNCHANGED <<slots, slotObj, closures, lis, mu, grants, sem, limiters, now, conns, client, more>>

\* connCountingStream.Close called by t: the first call closes the connection and
\* goes on to DecrementConnections(port); every later call, also one made while the
\* first is still running, returns nil and does nothing
StreamClose(t, w) ==
  /\ thr[t].pc = "idle"
  /\ socks.streams[w].made
  /\ socks.streams[w].calls < MaxCloses
  /\ IF socks.streams[w].closed
     THEN /\ socks' = [socks EXCEPT !.streams[w].calls = @ + 1]
          /\ UNCHANGED thr
     ELSE /\ socks' = [socks EXCEPT !.streams[w].closed = TRUE,
                                    !.streams[w].calls = @ + 1,
                                    !.streams[w].connCloses = @ + 1]
          /\ thr' = [thr EXCEPT ![t] = [IdleThread EXCEPT !.pc = "holding",
                                                         !.port = socks.streams[w].port]]
  /\ UNCHANGED <<slots, slotObj, closures, lis, mu, grants, sem, limiters, now, conns, client, more>>

\* ----------------------------------------------- client.go, Client.Run
\* the two Run functions of client.go: lines 206-263 wait a fixed delay between
\* attempts, lines 472-544 hand the attempt to backoff.Retry
Versions == {"fixed", "backoff"}

NewClient == [pc |-> "new", ver |-> "none", attempts |-> 0, last |-> "none",
              result |-> "none", cancelled |-> FALSE]

\* what connect returns: a session ("OK"), a HandshakeError carrying the status of
\* the reply, or another error (dial, deadline, write, read, yamux.Client)
ConnectOutcomes ==
  {"OK", "AUTH_FAIL", "BAD_REQUEST", "PORT_FORBIDDEN", "PORT_IN_USE", "SERVER_INTERNAL",
   "UNKNOWN", "ioError"}

\* a client that gives up on any reply that refuses its ports
Terminal_WithForbidden(status) == status \in {"AUTH_FAIL", "PORT_IN_USE", "PORT_FORBIDDEN"}

\* a client that gives up on every HandshakeError
Terminal_AnyStatus(status) == status \notin {"OK", "ioError"}

\* lines 225-233 and 509-517: IsAuthFail and IsPortInUse end Run
Terminal(status) == status \in {"AUTH_FAIL", "PORT_IN_USE"}

\* Run is called; lines 474-478: the later version builds its address filter first and
\* returns the error when that fails
CRun(ver, filterOk) ==
  /\ client.pc = "new"
  /\ client' = IF ver = "backoff" /\ ~filterOk
               THEN [client EXCEPT !.pc = "returned", !.ver = ver, !.result = "filterErr"]
               ELSE [client EXCEPT !.pc = "top", !.ver = ver]
  /\ UNCHANGED <<slots, slotObj, closures, lis, mu, thr, grants, sem, limiters, now, conns, socks, more>>

\* lines 208-213 and 498-503: the context is looked at before each attempt
CTop ==
  /\ client.pc = "top"
  /\ client' = IF client.cancelled
               THEN [client EXCEPT !.pc = "returned", !.result = "ctxErr"]
               ELSE [client EXCEPT !.pc = "connect"]
  /\ UNCHANGED <<slots, slotObj, closures, lis, mu, thr, grants, sem, limiters, now, conns, socks, more>>

\* lines 217-236 and 505-523: connect and what Run does with its error
CConnect(outcome) ==
  /\ client.pc = "connect"
  /\ client.attempts < MaxAttempts
  /\ client' = [client EXCEPT
                  !.attempts = @ + 1,
                  !.last = outcome,
                  !.pc = IF outcome = "OK" THEN "session"
                         ELSE IF outcome # "ioError" /\ Terminal(outcome) THEN "returned"
                         ELSE "wait",
                  !.result = IF outcome # "ioError" /\ Terminal(outcome) THEN outcome ELSE @]
  /\ UNCHANGED <<slots, slotObj, closures, lis, mu, thr, grants, sem, limiters, now, conns, socks, more>>

\* lines 246-252 and 529-540: handleStreams returns the error of AcceptStream, the
\* session is closed and the loop goes on to its delay
CSessionEnd ==
  /\ client.pc = "session"
  /\ client' = [client EXCEPT !.pc = "wait", !.last = "sessionEnd"]
  /\ UNCHANGED <<slots, slotObj, closures, lis, mu, thr, grants, sem, limiters, now, conns, socks, more>>

\* lines 238-239, 254-256, and the timer of backoff.Retry: the delay is over
CDelayOver ==
  /\ client.pc = "wait"
  /\ client' = [client EXCEPT !.pc = "top"]
  /\ UNCHANGED <<slots, slotObj, closures, lis, mu, thr, grants, sem, limiters, now, conns, socks, more>>

\* lines 240-241, 257-258, and backoff.WithContext: the context ends the delay
CDelayCancelled ==
  /\ client.pc = "wait"
  /\ client.cancelled
  /\ client' = [client EXCEPT !.pc = "returned", !.result = "ctxErr"]
  /\ UNCHANGED <<slots, slotObj, closures, lis, mu, thr, grants, sem, limiters, now, conns, socks, more>>

\* the caller of Run cancels the context
CCancel ==
  /\ client.pc # "new"
  /\ ~client.cancelled
  /\ client' = [client EXCEPT !.cancelled = TRUE]
  /\ UNCHANGED <<slots, slotObj, closures, lis, mu, thr, grants, sem, limiters, now, conns, socks, more>>

\* ------------------------------- the client manager (part_008, lines 1-400)
\* pc, attempt: the goroutine of runWithAutoRestart and its local counter; gen: the
\* restartCtx that Start created last, done: those that were cancelled; runGen: the
\* restartCtx the context of the current attempt is a child of; extra: the loops
\* launched while an earlier one had not returned (they are counted, not followed);
\* starts: the callers of Start; stopPc, stopGen: a Stop between its critical section
\* and its cancel calls, and the restartCancel it took; asked: a Stop has returned since
\* the last launch
NewManager == [pc |-> "off", attempt |-> 0, restartCount |-> 0, maxRetries |-> 0,
               shuttingDown |-> FALSE, status |-> "none", running |-> FALSE, port |-> 0,
               gen |-> 0, done |-> {}, runGen |-> 0, extra |-> 0,
               starts |-> [t \in Starters |-> "idle"],
               stopPc |-> "idle", stopGen |-> 0, asked |-> FALSE]

\* lines 246-251: the one error of Run that ends the restart loop
StopsRestart(err) == err = "PORT_IN_USE"

\* setStatus(false, port, message), lines 390-400
setStatus(m, port, message) ==
  [m EXCEPT !.running = FALSE, !.port = port, !.status = message, !.shuttingDown = FALSE]

\* <-m.restartCtx.Done(): the restartCtx the manager holds now is cancelled
RestartCtxDone == manager.gen \in manager.done

\* Manager.Start with a configuration that Validate rejects, lines 83-86
MStartInvalid ==
  /\ manager' = setStatus(manager, 0, "configError")
  /\ UNCHANGED <<slots, slotObj, closures, lis, mu, thr, grants, sem, limiters, now, conns, socks,
                 client, outer>>

\* Manager.Start, lines 88-98: the check of running, under the lock
MStartCheck(t) ==
  /\ manager.starts[t] = "idle"
  /\ manager' = IF manager.running
                THEN [manager EXCEPT !.starts[t] = "already"]
                ELSE [manager EXCEPT !.starts[t] = "checked", !.status = "preparing",
                                     !.shuttingDown = FALSE]
  /\ UNCHANGED <<slots, slotObj, closures, lis, mu, thr, grants, sem, limiters, now, conns, socks,
                 client, outer>>

\* Manager.Start with AutoRestart, lines 100-152: the restart settings, the contexts,
\* running and port, and go runWithAutoRestart
MStart(t, maxRetries) ==
  /\ manager.starts[t] = "checked"
  /\ manager' = [(IF manager.pc \in {"off", "exited"}
                  THEN [manager EXCEPT !.pc = "top", !.attempt = 0]
                  ELSE [manager EXCEPT !.extra = @ + 1])
                   EXCEPT !.starts[t] = "launched", !.maxRetries = maxRetries,
                          !.restartCount = 0, !.gen = @ + 1, !.running = TRUE,
                          !.port = PortMin, !.status = "started", !.asked = FALSE]
  /\ UNCHANGED <<slots, slotObj, closures, lis, mu, thr, grants, sem, limiters, now, conns, socks,
                 client, outer>>

\* runWithAutoRestart, lines 183-228: the checks at the top of the loop, then a new
\* Client and its context, a child of restartCtx
MLoop ==
  /\ manager.pc = "top"
  /\ IF RestartCtxDone \/ manager.shuttingDown
     THEN /\ manager' = [manager EXCEPT !.pc = "exited"]
          /\ UNCHANGED client
     ELSE IF manager.maxRetries > 0 /\ manager.attempt >= manager.maxRetries
     THEN /\ manager' = [setStatus(manager, manager.port, "maxRetries") EXCEPT !.pc = "exited"]
          /\ UNCHANGED client
     ELSE /\ manager.attempt <= MaxRestarts
          /\ manager' = [manager EXCEPT !.pc = "running", !.runGen = manager.gen,
                                        !.restartCount = IF manager.attempt > 0 THEN @ + 1 ELSE @]
          /\ client' = NewClient
  /\ UNCHANGED <<slots, slotObj, closures, lis, mu, thr, grants, sem, limiters, now, conns, socks,
                 outer>>

\* line 228: rskClient.Run(ctx) is entered; this Run builds its address filter first
MRun(filterOk) ==
  /\ manager.pc = "running"
  /\ client.pc = "new"
  /\ client' = [(IF filterOk THEN [client EXCEPT !.pc = "top"]
                 ELSE [client EXCEPT !.pc = "returned", !.result = "filterErr"])
                EXCEPT !.ver = "fixed", !.cancelled = manager.runGen \in manager.done]
  /\ UNCHANGED <<slots, slotObj, closures, lis, mu, thr, grants, sem, limiters, now, conns, socks,
                 manager, outer>>

\* lines 230-252: Run has returned err; a cancelled context and a port in use end the
\* loop, any other error is recorded and the loop goes on to its delay; each way
\* goes through setStatus(false, ...)
MReturned ==
  /\ manager.pc = "running"
  /\ client.pc = "returned"
  /\ manager' = IF client.result = "ctxErr"
                THEN [setStatus(manager, manager.port, "Stopped") EXCEPT !.pc = "exited"]
                ELSE IF StopsRestart(client.result)
                THEN [setStatus(manager, manager.port, "portInUse") EXCEPT !.pc = "exited"]
                ELSE [setStatus(manager, manager.port, "error") EXCEPT
                        !.pc = "wait", !.attempt = @ + 1]
  /\ UNCHANGED <<slots, slotObj, closures, lis, mu, thr, grants, sem, limiters, now, conns, socks,
                 client, outer>>

\* lines 263-268: the restart delay is over, or restartCtx is done first
MDelay(over) ==
  /\ manager.pc = "wait"
  /\ over \/ RestartCtxDone
  /\ manager' = [manager EXCEPT !.pc = IF over THEN "top" ELSE "exited"]
  /\ UNCHANGED <<slots, slotObj, closures, lis, mu, thr, grants, sem, limiters, now, conns, socks,
                 client, outer>>

\* Manager.Stop, lines 276-291, under the lock; the goroutine that waits for the
\* context given to Start (lines 139-144) calls it too. A manager that is not running
\* is left as it is and Stop returns
MStop ==
  /\ manager.stopPc = "idle"
  /\ manager' = IF manager.running
                THEN [manager EXCEPT !.shuttingDown = TRUE, !.running = FALSE,
                                     !.status = "stopping", !.stopPc = "cancel",
                                     !.stopGen = manager.gen]
                ELSE [manager EXCEPT !.asked = TRUE]
  /\ UNCHANGED <<slots, slotObj, closures, lis, mu, thr, grants, sem, limiters, now, conns, socks,
                 client, outer>>

\* Manager.Stop, lines 296-303: restartCancel and cancel; an attempt whose context is
\* a child of that restartCtx is done with them
MStopCancel ==
  /\ manager.stopPc = "cancel"
  /\ manager' = [manager EXCEPT !.stopPc = "idle", !.asked = TRUE,
                                !.done = @ \cup {manager.stopGen}]
  /\ client' = IF manager.pc = "running" /\ manager.runGen = manager.stopGen
                  /\ client.pc \notin {"new", "returned"}
               THEN [client EXCEPT !.cancelled = TRUE]
               ELSE client
  /\ UNCHANGED <<slots, slotObj, closures, lis, mu, thr, grants, sem, limiters, now, conns, socks,
                 outer>>

\* ------------------------------------------ server.go, Server.Start and its end
\* the context handed to Start is cancelled (main.go, on a signal)
SCancel ==
  /\ ~start.ctxDone
  /\ start' = [start EXCEPT !.ctxDone = TRUE]
  /\ UNCHANGED <<slots, slotObj, closures, lis, mu, thr, grants, sem, limiters, now, conns, socks,
                 client, manager, egress, codec, bindCall>>

\* lines 296-303: the goroutine that waits for ctx.Done closes the listening socket
SCloseListener ==
  /\ start.ctxDone
  /\ start.listening
  /\ start' = [start EXCEPT !.listening = FALSE]
  /\ UNCHANGED <<slots, slotObj, closures, lis, mu, thr, grants, sem, limiters, now, conns, socks,
                 client, manager, egress, codec, bindCall>>

\* lines 306-315: Accept fails on the closed socket and the loop returns ctx.Err();
\* the deferred calls close the listener and the rate limiter, no handler is told
SAcceptFails ==
  /\ ~start.listening
  /\ ~start.returned
  /\ start' = [start EXCEPT !.returned = TRUE]
  /\ UNCHANGED <<slots, slotObj, closures, lis, mu, thr, grants, sem, limiters, now, conns, socks,
                 client, manager, egress, codec, bindCall>>

SrvInit ==
  /\ sem = 0
  /\ limiters = [ip \in IPs |-> NoEntry]
  /\ now = 0
  /\ conns = [c \in Conns |-> NewConn]

\* ------------------------------------------------------------- the start
RegInit ==
  /\ slots = [p \in Ports |-> 0]
  /\ slotObj = [s \in SlotIds |-> NoSlot]
  /\ closures = [r \in Owners |-> NoClosure]
  /\ lis = [s \in SlotIds |-> NoListener]
  /\ mu = 0
  /\ thr = [t \in Callers |-> IdleThread]
  /\ grants = {}

\* NewSOCKSManager: no dialer has been called and no sub-stream wrapped
SocksInit == socks = [dial |-> NoDial, streams |-> [w \in Streams |-> NoStream]]

\* a Client before Run is called
ClientInit == client = NewClient

\* NewManager: nothing started
ManagerInit == manager = NewManager

\* --------------------------------------------------- config.go, AddressFilter
\* an IPv4 address is its four bytes
FirstBytes == {8, 10, 127, 169, 172, 192}

SecondBytes == {0, 16, 168, 254}

IPv4s == {<<a, b, 0, 1>> : a \in FirstBytes, b \in SecondBytes}

\* what a hostname may resolve to: a public, a loopback and a private address
HostIPs == {<<8, 0, 0, 1>>, <<127, 0, 0, 1>>, <<10, 0, 0, 1>>}

\* the networks of a --blocked-networks list, as net.ParseCIDR returns them
CIDRs == {[ip |-> <<8, 0, 0, 0>>, bits |-> 8], [ip |-> <<10, 0, 0, 0>>, bits |-> 8],
          [ip |-> <<127, 0, 0, 0>>, bits |-> 8], [ip |-> <<172, 16, 0, 0>>, bits |-> 12]}

SeqsUpTo(S, n) == UNION {[1..k -> S] : k \in 0..n}

\* NewAddressFilter, lines 84-99
AddressFilters ==
  {[allowPrivate |-> a, blockedNets |-> nets] : a \in BOOLEAN, nets \in SeqsUpTo(CIDRs, MaxNets)}

\* the addr string of a CONNECT_REQ: host:port with an IP literal, host:port with a
\* name (ips is what net.LookupIP returns, failed whether it returns an error), or a
\* string net.SplitHostPort rejects
Addrs ==
  {[kind |-> "ip", ips |-> <<ip>>, failed |-> FALSE] : ip \in IPv4s}
    \cup {[kind |-> "host", ips |-> ips, failed |-> FALSE] : ips \in SeqsUpTo(HostIPs, MaxResolved)}
    \cup {[kind |-> "host", ips |-> <<>>, failed |-> TRUE], [kind |-> "bad", ips |-> <<>>, failed |-> FALSE]}

\* net.IP.IsLoopback, line 152
isLoopback(ip) == ip[1] = 127

\* net.IP.IsLinkLocalUnicast, line 159
isLinkLocal(ip) == ip[1] = 169 /\ ip[2] = 254

\* net.IP.IsPrivate, line 167: 10/8, 172.16/12 (the high four bits of the second byte
\* are 0001) and 192.168/16
isPrivateNetwork(ip) ==
  \/ ip[1] = 10
  \/ ip[1] = 172 /\ ip[2] \div 16 = 1
  \/ ip[1] = 192 /\ ip[2] = 168

\* the bits of byte j (1..4) that a mask of the given length covers
MaskBits(bits, j) ==
  IF bits >= 8 * j THEN 8 ELSE IF bits <= 8 * (j - 1) THEN 0 ELSE bits - 8 * (j - 1)

\* a byte and-ed with its part of the mask
Masked(b, k) == (b \div 2 ^ (8 - k)) * 2 ^ (8 - k)

\* net.IPNet.Contains: the address and the network agree byte by byte under the mask
Contains(ipNet, ip) ==
  \A j \in 1..4 :
    Masked(ip[j], MaskBits(ipNet.bits, j)) = Masked(ipNet.ip[j], MaskBits(ipNet.bits, j))

\* lines 171-178
isInBlockedNetwork(af, ip) ==
  \E j \in 1..Len(af.blockedNets) : Contains(af.blockedNets[j], ip)

\* a filter that looks at the custom networks before anything else and lets
\* allowPrivate pass link-local addresses
IsAllowedIP_CustomFirst(af, ip) ==
  IF isInBlockedNetwork(af, ip) THEN "address is in a blocked network"
  ELSE IF isLoopback(ip) THEN "loopback addresses are not allowed"
  ELSE IF ~af.allowPrivate /\ isLinkLocal(ip) THEN "link-local addresses are not allowed"
  ELSE IF ~af.allowPrivate /\ isPrivateNetwork(ip)
  THEN "private network addresses are not allowed"
  ELSE "nil"

\* IsAllowed, lines 125-145: the checks on the parsed address, in their order
IsAllowedIP(af, ip) ==
  IF isLoopback(ip) THEN "loopback addresses are not allowed"
  ELSE IF isLinkLocal(ip) THEN "link-local addresses are not allowed"
  ELSE IF ~af.allowPrivate /\ isPrivateNetwork(ip)
  THEN "private network addresses are not allowed"
  ELSE IF isInBlockedNetwork(af, ip) THEN "address is in a blocked network"
  ELSE "nil"

\* IsAllowed, lines 103-146: the error it returns, "nil" when the address is allowed
IsAllowed(af, addr) ==
  IF addr.kind = "bad" THEN "invalid address format"
  ELSE IF addr.kind = "host" /\ addr.failed THEN "failed to resolve hostname"
  ELSE IF addr.kind = "host" /\ addr.ips = <<>> THEN "hostname resolved to no addresses"
  ELSE IsAllowedIP(af, addr.ips[1])

NoAddr == [kind |-> "none", ips |-> <<>>, failed |-> FALSE]

NoFilter == [allowPrivate |-> FALSE, blockedNets |-> <<>>]

\* a call of IsAllowed on the filter
FIsAllowed(addr) ==
  /\ ~filter.called
  /\ filter' = [filter EXCEPT !.addr = addr, !.err = IsAllowed(filter.af, addr),
                              !.called = TRUE]
  /\ UNCHANGED <<slots, slotObj, closures, lis, mu, thr, grants, sem, limiters, now, conns, socks,
                 client, manager, start, stream, codec, bindCall>>

FilterInit == filter = [af |-> NoFilter, addr |-> NoAddr, err |-> "nil", called |-> FALSE]

\* ------------------------------------------------------ client.go, handleStream
\* dialedIP: the address the connection to the target was made to, <<>> while there
\* is none
NewStream == [pc |-> "read", addr |-> NoAddr, dialed |-> FALSE, target |-> "none",
              dialedIP |-> <<>>, written |-> 0, closed |-> FALSE]

\* lines 292-301: SetReadDeadline and ReadConnectReq; ok is whether both succeed
HSRead(ok, addr) ==
  /\ stream.pc = "read"
  /\ stream' = IF ok THEN [stream EXCEPT !.pc = "filter", !.addr = addr]
               ELSE [stream EXCEPT !.pc = "ret"]
  /\ UNCHANGED <<slots, slotObj, closures, lis, mu, thr, grants, sem, limiters, now, conns, socks,
                 client, manager, start, filter, codec, bindCall>>

\* a handler that only logs what the filter says
HSFilter_LogOnly ==
  /\ stream.pc = "filter"
  /\ filter' = [filter EXCEPT !.addr = stream.addr,
                              !.err = IsAllowed(filter.af, stream.addr), !.called = TRUE]
  /\ stream' = [stream EXCEPT !.pc = "dial"]
  /\ UNCHANGED <<slots, slotObj, closures, lis, mu, thr, grants, sem, limiters, now, conns, socks,
                 client, manager, start, codec, bindCall>>

\* lines 306-311: filter.IsAllowed(addr)
HSFilter ==
  /\ stream.pc = "filter"
  /\ filter' = [filter EXCEPT !.addr = stream.addr,
                              !.err = IsAllowed(filter.af, stream.addr), !.called = TRUE]
  /\ stream' = [stream EXCEPT !.pc = IF IsAllowed(filter.af, stream.addr) = "nil"
                                     THEN "dial" ELSE "ret"]
  /\ UNCHANGED <<slots, slotObj, closures, lis, mu, thr, grants, sem, limiters, now, conns, socks,
                 client, manager, start, codec, bindCall>>

\* the addresses net.DialTimeout("tcp", addr, ...) may connect to: it resolves the
\* host of addr itself and tries the addresses it gets, one after the other
DialAddrs(addr) == SetOf(addr.ips)

\* lines 313-325: net.DialTimeout and ClearDeadline; ok is whether the dial succeeds
\* and ip the address it connected to, cleared whether ClearDeadline succeeds
HSDial(ok, cleared, ip) ==
  /\ stream.pc = "dial"
  /\ ip \in DialAddrs(stream.addr)
  /\ stream' = [stream EXCEPT !.dialed = TRUE,
                              !.target = IF ok THEN "open" ELSE @,
                              !.dialedIP = IF ok THEN ip ELSE @,
                              !.pc = IF ok /\ cleared THEN "copy" ELSE "ret"]
  /\ UNCHANGED <<slots, slotObj, closures, lis, mu, thr, grants, sem, limiters, now, conns, socks,
                 client, manager, start, filter, codec, bindCall>>

\* lines 336-339: io.Copy(stream, target) writes what the target sent
HSCopyBack ==
  /\ stream.pc = "copy"
  /\ stream.written < MaxBytes
  /\ stream' = [stream EXCEPT !.written = @ + 1]
  /\ UNCHANGED <<slots, slotObj, closures, lis, mu, thr, grants, sem, limiters, now, conns, socks,
                 client, manager, start, filter, codec, bindCall>>

\* line 341: one of the two copies ends
HSCopyDone ==
  /\ stream.pc = "copy"
  /\ stream' = [stream EXCEPT !.pc = "ret"]
  /\ UNCHANGED <<slots, slotObj, closures, lis, mu, thr, grants, sem, limiters, now, conns, socks,
                 client, manager, start, filter, codec, bindCall>>

\* the return: the deferred target.Close (318-320) and stream.Close (288-290)
HSReturn ==
  /\ stream.pc = "ret"
  /\ stream' = [stream EXCEPT !.pc = "done", !.closed = TRUE,
                              !.target = IF @ = "open" THEN "closed" ELSE @]
  /\ UNCHANGED <<slots, slotObj, closures, lis, mu, thr, grants, sem, limiters, now, conns, socks,
                 client, manager, start, filter, codec, bindCall>>

StreamInit == stream = NewStream

\* ------------------------------------------------------- proto/messages.go
\* "RSK1"
MagicValue == <<82, 83, 75, 49>>

\* a byte string of n bytes, no two neighbours alike
Bytes(n) == [j \in 1..n |-> (j * 7) % 256]

\* n ports, the first one given
PortsFrom(first, n) == [j \in 1..n |-> (first + j - 1) % 65536]

\* binary.Write of a uint8 and of a uint16, big-endian
U8(n) == <<n % 256>>

U16(n) == <<(n \div 256) % 256, n % 256>>

RECURSIVE PutPorts(_)
PutPorts(ports) == IF ports = <<>> THEN <<>> ELSE U16(Head(ports)) \o PutPorts(Tail(ports))

\* the result of a writer: its error and the bytes it wrote
Wrote(err, out) == [err |-> err, out |-> out]

\* WriteHello, lines 42-105
WriteHello(h) ==
  IF h.magic # MagicValue THEN Wrote("ErrInvalidMagic", <<>>)
  ELSE IF h.version # Version THEN Wrote("ErrInvalidVersion", <<>>)
  ELSE IF Len(h.token) < MinTokenLen \/ Len(h.token) > MaxTokenLen
  THEN Wrote("ErrInvalidTokenLen", <<>>)
  ELSE IF Len(h.ports) < MinPortCount \/ Len(h.ports) > MaxPortCount
  THEN Wrote("ErrInvalidPortCount", <<>>)
  ELSE IF Len(h.name) > MaxNameLen THEN Wrote("ErrInvalidNameLen", <<>>)
  ELSE IF 4 + 1 + 1 + Len(h.token) + 1 + Len(h.ports) * 2 + 1 + Len(h.name) > MaxHelloSize
  THEN Wrote("ErrMessageTooLarge", <<>>)
  ELSE Wrote("nil", h.magic \o U8(h.version) \o U8(Len(h.token)) \o h.token
                      \o U8(Len(h.ports)) \o PutPorts(h.ports) \o U8(Len(h.name)) \o h.name)

\* WriteHelloResp, lines 203-243
WriteHelloResp(h) ==
  IF h.version # Version THEN Wrote("ErrInvalidVersion", <<>>)
  ELSE IF Len(h.acceptedPorts) > MaxAcceptedPortCount
  THEN Wrote("ErrInvalidAcceptedPortCount", <<>>)
  ELSE IF Len(h.message) > MaxMessageLen THEN Wrote("ErrInvalidMessageLen", <<>>)
  ELSE Wrote("nil", U8(h.version) \o U8(h.status) \o U8(Len(h.acceptedPorts))
                      \o PutPorts(h.acceptedPorts) \o U8(Len(h.message)) \o h.message)

\* WriteConnectReq, lines 313-328
WriteConnectReq(m) ==
  IF Len(m.addr) < MinAddrLen \/ Len(m.addr) > MaxAddrLen
  THEN Wrote("ErrInvalidAddrLen", <<>>)
  ELSE Wrote("nil", U16(Len(m.addr)) \o m.addr)

\* the result of a reader: its error, the value it returns and the bytes it left
Got(err, msg, rest) == [err |-> err, msg |-> msg, rest |-> rest]

NoMsg == [type |-> "none"]

\* the bytes of b after the first n
After(b, n) == SubSeq(b, n + 1, Len(b))

\* io.ReadFull and binary.Read on a buffer that ends too early
Short(b, n) == Got(IF Len(b) = n THEN "EOF" ELSE "ErrUnexpectedEOF", NoMsg, <<>>)

\* n big-endian uint16 values of b, after the first off bytes
GetPorts(b, off, n) == [j \in 1..n |-> b[off + 2 * j - 1] * 256 + b[off + 2 * j]]

\* a reader that takes one byte more than the name
ReadHello_OneMore(b) ==
  LET tokenLen == b[6]
      portCnt == b[7 + tokenLen]
      nameAt == 7 + tokenLen + 2 * portCnt + 1
      nameLen == b[nameAt]
  IN Got("nil",
         [type |-> "Hello", magic |-> SubSeq(b, 1, 4), version |-> b[5],
          token |-> SubSeq(b, 7, 6 + tokenLen),
          ports |-> GetPorts(b, 7 + tokenLen, portCnt),
          name |-> SubSeq(b, nameAt + 1, nameAt + nameLen)],
         After(b, nameAt + nameLen + 1))

\* ReadHello, lines 108-172
ReadHello(b) ==
  IF Len(b) < 4 THEN Short(b, 0)
  ELSE IF SubSeq(b, 1, 4) # MagicValue THEN Got("ErrInvalidMagic", NoMsg, After(b, 4))
  ELSE IF Len(b) < 5 THEN Short(b, 4)
  ELSE IF b[5] # Version THEN Got("ErrInvalidVersion", NoMsg, After(b, 5))
  ELSE IF Len(b) < 6 THEN Short(b, 5)
  ELSE LET tokenLen == b[6]
       IN IF tokenLen < MinTokenLen \/ tokenLen > MaxTokenLen
          THEN Got("ErrInvalidTokenLen", NoMsg, After(b, 6))
          ELSE IF Len(b) < 6 + tokenLen THEN Short(b, 6)
          ELSE IF Len(b) < 7 + tokenLen THEN Short(b, 6 + tokenLen)
          ELSE LET portCnt == b[7 + tokenLen]
                   nameAt == 7 + tokenLen + 2 * portCnt + 1
               IN IF portCnt < MinPortCount \/ portCnt > MaxPortCount
                  THEN Got("ErrInvalidPortCount", NoMsg, After(b, 7 + tokenLen))
                  ELSE IF Len(b) < nameAt - 1 THEN Short(b, 7 + tokenLen)
                  ELSE IF Len(b) < nameAt THEN Short(b, nameAt - 1)
                  ELSE LET nameLen == b[nameAt]
                       IN IF nameLen > MaxNameLen
                          THEN Got("ErrInvalidNameLen", NoMsg, After(b, nameAt))
                          ELSE IF Len(b) < nameAt + nameLen THEN Short(b, nameAt)
                          ELSE Got("nil",
                                   [type |-> "Hello", magic |-> SubSeq(b, 1, 4),
                                    version |-> b[5],
                                    token |-> SubSeq(b, 7, 6 + tokenLen),
                                    ports |-> GetPorts(b, 7 + tokenLen, portCnt),
                                    name |-> SubSeq(b, nameAt + 1, nameAt + nameLen)],
                                   After(b, nameAt + nameLen))

\* ReadHelloResp, lines 246-296
ReadHelloResp(b) ==
  IF Len(b) < 1 THEN Short(b, 0)
  ELSE IF b[1] # Version THEN Got("ErrInvalidVersion", NoMsg, After(b, 1))
  ELSE IF Len(b) < 2 THEN Short(b, 1)
  ELSE IF Len(b) < 3 THEN Short(b, 2)
  ELSE LET acptCnt == b[3]
           msgAt == 3 + 2 * acptCnt + 1
       IN IF acptCnt > MaxAcceptedPortCount
          THEN Got("ErrInvalidAcceptedPortCount", NoMsg, After(b, 3))
          ELSE IF Len(b) < msgAt - 1 THEN Short(b, 3)
          ELSE IF Len(b) < msgAt THEN Short(b, msgAt - 1)
          ELSE LET msgLen == b[msgAt]
               IN IF msgLen > MaxMessageLen
                  THEN Got("ErrInvalidMessageLen", NoMsg, After(b, msgAt))
                  ELSE IF Len(b) < msgAt + msgLen THEN Short(b, msgAt)
                  ELSE Got("nil",
                           [type |-> "HelloResp", version |-> b[1], status |-> b[2],
                            acceptedPorts |-> GetPorts(b, 3, acptCnt),
                            message |-> SubSeq(b, msgAt + 1, msgAt + msgLen)],
                           After(b, msgAt + msgLen))

\* ReadConnectReq, lines 331-347
ReadConnectReq(b) ==
  IF Len(b) < 2 THEN Short(b, 0)
  ELSE LET addrLen == b[1] * 256 + b[2]
       IN IF addrLen < MinAddrLen \/ addrLen > MaxAddrLen
          THEN Got("ErrInvalidAddrLen", NoMsg, After(b, 2))
          ELSE IF Len(b) < 2 + addrLen THEN Short(b, 2)
          ELSE Got("nil", [type |-> "ConnectReq", addr |-> SubSeq(b, 3, 2 + addrLen)],
                   After(b, 2 + addrLen))

\* the writer and the reader of a message type
Write(m) ==
  IF m.type = "Hello" THEN WriteHello(m)
  ELSE IF m.type = "HelloResp" THEN WriteHelloResp(m)
  ELSE WriteConnectReq(m)

Read(type, b) ==
  IF type = "Hello" THEN ReadHello(b)
  ELSE IF type = "HelloResp" THEN ReadHelloResp(b)
  ELSE ReadConnectReq(b)

\* the values handed to the writers: every field at, inside and outside its bounds
HelloValues ==
  {[type |-> "Hello", magic |-> magic, version |-> version, token |-> Bytes(t),
    ports |-> ports, name |-> Bytes(n)] :
     magic \in {MagicValue, <<66, 65, 68, 33>>},
     version \in {Version, Version + 1},
     t \in {MinTokenLen - 1, MinTokenLen, MaxTokenLen, MaxTokenLen + 1},
     ports \in {PortsFrom(1, MinPortCount - 1), PortsFrom(0, MinPortCount),
                PortsFrom(20000, MinPortCount), PortsFrom(65535, MinPortCount),
                PortsFrom(255, MaxPortCount), PortsFrom(1, MaxPortCount + 1)},
     n \in {0, 1, MaxNameLen, MaxNameLen + 1}}

HelloRespValues ==
  {[type |-> "HelloResp", version |-> version, status |-> status,
    acceptedPorts |-> ports, message |-> Bytes(n)] :
     version \in {Version, Version + 1},
     status \in {0, 4, 5, 6, 255},
     ports \in {PortsFrom(1, 0), PortsFrom(20000, 1), PortsFrom(255, MaxAcceptedPortCount),
                PortsFrom(1, MaxAcceptedPortCount + 1)},
     n \in {0, 1, MaxMessageLen, MaxMessageLen + 1}}

ConnectReqValues ==
  {[type |-> "ConnectReq", addr |-> Bytes(n)] :
     n \in {MinAddrLen - 1, MinAddrLen, 256, MaxAddrLen, MaxAddrLen + 1}}

Messages == HelloValues \cup HelloRespValues \cup ConnectReqValues

\* what follows the message in the reader's buffer
Tails == {Bytes(n) : n \in 0..MaxTail}

NoWrote == Wrote("none", <<>>)

NoGot == Got("none", NoMsg, <<>>)

\* the writer of the message's type is called on an empty buffer
CWrite ==
  /\ codec.pc = "new"
  /\ codec' = [codec EXCEPT !.pc = "written", !.w = Write(codec.msg)]
  /\ UNCHANGED <<slots, slotObj, closures, lis, mu, thr, grants, sem, limiters, now, conns, socks,
                 client, manager, start, egress, bindCall>>

\* the reader is called on what the writer wrote, followed by the tail
CRead ==
  /\ codec.pc = "written"
  /\ codec.w.err = "nil"
  /\ codec' = [codec EXCEPT !.pc = "read", !.r = Read(codec.msg.type, codec.w.out \o codec.tail)]
  /\ UNCHANGED <<slots, slotObj, closures, lis, mu, thr, grants, sem, limiters, now, conns, socks,
                 client, manager, start, egress, bindCall>>

CodecInit ==
  codec = [pc |-> "new", msg |-> NoMsg, tail |-> <<>>, w |-> NoWrote, r |-> NoGot]

\* no call of BindSession yet
NoBindCall == [made |-> FALSE, port |-> 0, hadSlot |-> FALSE, hadSession |-> FALSE, err |-> "none"]

BindCallInit == bindCall = NoBindCall

\* Server.Start, lines 270-303: listening, not cancelled
StartInit == start = [ctxDone |-> FALSE, listening |-> TRUE, returned |-> FALSE]

Init ==
  /\ RegInit /\ SrvInit /\ SocksInit /\ ClientInit /\ ManagerInit /\ StartInit
  /\ FilterInit /\ StreamInit /\ CodecInit /\ BindCallInit

CallReserve ==
  \E ports \in PortSeqs :
    LET free == {r \in Reservations : closures[r] = NoClosure}
    IN /\ free # {}
       /\ ReservePorts(MinOf(free), ports)
       /\ grants' = LiveGrants(grants \cup
                       (IF FirstInUse(slots, ports) = 0
                        THEN {<<MinOf(free), p>> : p \in SetOf(ports)} ELSE {}),
                       slots')
       /\ lis' = IF FirstInUse(slots, ports) = 0 THEN Listeners ELSE lis
       /\ UNCHANGED <<thr, srv>>

CallReleaseFunc ==
  \E r \in Reservations :
    /\ ReleaseFunc(r)
    /\ grants' = LiveGrants(grants, slots')
    /\ lis' = IF closures[r].released THEN lis ELSE Listeners
    /\ UNCHANGED <<thr, srv>>

CallBind ==
  \E port \in Ports :
    /\ BindSession(port, slots[port], MaxCap)
    /\ lis' = IF BindError(slots, port) THEN lis ELSE OpenListener(Listeners, slots[port])
    /\ UNCHANGED <<thr, grants, srv>>

CallRelease ==
  \E ports \in ReleaseArgs :
    /\ ReleasePorts(ports)
    /\ grants' = LiveGrants(grants, slots')
    /\ UNCHANGED <<thr, srv>>

RegNext ==
  \/ CallReserve
  \/ CallReleaseFunc
  \/ CallBind
  \/ CallRelease

SpecRegistry == Init /\ [][RegNext]_vars

\* ----------------------- the registry under the data plane's lock-free counters
\* Ports are reserved, bound once with some cap and released, as a control
\* connection does, while SOCKS connections increment and decrement.
\* the counters of one port are followed: the data plane keeps one counter per slot
ConnPorts == {MinOf(Ports)}

ConnReserve ==
  \E port \in ConnPorts :
    LET free == {r \in 1..ConnReserves : closures[r] = NoClosure}
    IN /\ free # {}
       /\ ReservePorts(MinOf(free), <<port>>)
       /\ grants' = LiveGrants(grants \cup
                       (IF FirstInUse(slots, <<port>>) = 0 THEN {<<MinOf(free), port>>} ELSE {}),
                       slots')
       /\ lis' = IF FirstInUse(slots, <<port>>) = 0 THEN Listeners ELSE lis
       /\ UNCHANGED <<thr, srv>>

ConnBindBegin ==
  \E port \in ConnPorts, cap \in Caps :
    /\ ~BindError(slots, port)
    /\ ~slotObj[slots[port]].session
    /\ BindSessionBegin(port, slots[port], cap)
    /\ lis' = OpenListener(Listeners, slots[port])
    /\ UNCHANGED <<thr, grants, srv>>

ConnBindEnd ==
  /\ BindSessionEnd
  /\ UNCHANGED <<lis, thr, grants, srv>>

ConnRelease ==
  \E port \in ConnPorts :
    /\ ReleasePorts(<<port>>)
    /\ grants' = LiveGrants(grants, slots')
    /\ UNCHANGED <<thr, srv>>

ConnIncLookup == \E t \in Callers, port \in ConnPorts : IncLookup(t, port) /\ UNCHANGED <<lis, grants, srv>>

ConnIncLoad == \E t \in Callers : IncLoad(t) /\ UNCHANGED <<lis, grants, srv>>

ConnIncCAS == \E t \in Callers : IncCAS(t) /\ UNCHANGED <<lis, grants, srv>>

ConnDecLookup == \E t \in Callers : DecLookup(t) /\ UNCHANGED <<lis, grants, srv>>

ConnDecAdd == \E t \in Callers : DecAdd(t) /\ UNCHANGED <<lis, grants, srv>>

ConnNext ==
  \/ ConnReserve
  \/ ConnBindBegin
  \/ ConnBindEnd
  \/ ConnRelease
  \/ ConnIncLookup
  \/ ConnIncLoad
  \/ ConnIncCAS
  \/ ConnDecLookup
  \/ ConnDecAdd

SpecConns == Init /\ [][ConnNext]_vars

\* ------------------------------------------------ the server and its clients
SrvAccept == \E c \in Conns, ip \in IPs : Accept(c, ip) /\ UNCHANGED <<socks, client, more>>

SrvCheckBlocked == \E c \in Conns, ok \in BOOLEAN : HCheckBlocked(c, ok) /\ UNCHANGED <<socks, client, more>>

SrvHello == \E c \in Conns, hello \in Hellos : HHello(c, hello) /\ UNCHANGED <<socks, client, more>>

SrvReserve == \E c \in Conns : HReserve(c) /\ UNCHANGED <<socks, client, more>>

SrvListen ==
  \E c \in Conns, out \in {"ok", "noReply", "noSession"} :
    \E k \in 0..Len(conns[c].ports) : HListen(c, k, out) /\ UNCHANGED <<socks, client, more>>

SrvBind == \E c \in Conns, started \in BOOLEAN : HBind(c, started) /\ UNCHANGED <<socks, client, more>>

SrvSessionClosed == \E c \in Conns : HSessionClosed(c) /\ UNCHANGED <<socks, client, more>>

SrvReturn == \E c \in Conns : HReturn(c) /\ UNCHANGED <<socks, client, more>>

SrvNext ==
  \/ SrvAccept
  \/ SrvCheckBlocked
  \/ SrvHello
  \/ SrvReserve
  \/ SrvListen
  \/ SrvBind
  \/ SrvSessionClosed
  \/ SrvReturn
  \/ Tick
  \/ CleanupTick

SpecServer == Init /\ [][SrvNext]_vars

\* ------------------------------------ the server built from the earlier handler
OldListen ==
  \E c \in Conns, out \in {"ok", "noReply", "noSession"} :
    \E k \in 0..Len(conns[c].ports) : LListen(c, k, out) /\ UNCHANGED <<socks, client, more>>

OldBind == \E c \in Conns, started \in BOOLEAN : LBind(c, started) /\ UNCHANGED <<socks, client, more>>

OldSessionClosed == \E c \in Conns : LSessionClosed(c) /\ UNCHANGED <<socks, client, more>>

OldReturn == \E c \in Conns : LReturn(c) /\ UNCHANGED <<socks, client, more>>

OldNext ==
  \/ SrvAccept
  \/ SrvCheckBlocked
  \/ SrvHello
  \/ SrvReserve
  \/ OldListen
  \/ OldBind
  \/ OldSessionClosed
  \/ OldReturn
  \/ Tick
  \/ CleanupTick

SpecLegacy == Init /\ [][OldNext]_vars

\* ------------------------------ the SOCKS manager on a reserved and bound port
\* the registry as the tests of the SOCKS manager set it up: ReservePorts of one port
\* and BindSession with a limit, before any connection is counted
SocksStart ==
  /\ slots = InsertSlots([p \in Ports |-> 0], <<PortMin>>, 1)
  /\ slotObj = [s \in SlotIds |->
                  IF s = SlotId(1, PortMin) THEN BindFields(NewSlot, s, MaxCap) ELSE NoSlot]
  /\ closures = [r \in Owners |->
                   IF r = 1 THEN [ports |-> {PortMin}, released |-> FALSE] ELSE NoClosure]
  /\ lis = OpenListener([s \in SlotIds |-> NoListener], SlotId(1, PortMin))
  /\ mu = 0
  /\ thr = [t \in Callers |-> IdleThread]
  /\ grants = {<<1, PortMin>>}
  /\ SrvInit
  /\ SocksInit
  /\ ClientInit
  /\ ManagerInit
  /\ StartInit
  /\ FilterInit
  /\ StreamInit
  /\ CodecInit
  /\ BindCallInit

SockIncLookup ==
  \E t \in Callers, port \in Ports :
    IncLookup(t, port) /\ UNCHANGED <<lis, grants, srv>>

SockWrap == \E t \in Callers, w \in Streams : Wrap(t, w)

SockClose == \E t \in Callers, w \in Streams : StreamClose(t, w)

SockDial == \E port \in Ports, outcome \in DialOutcomes : Dial(port, outcome)

SockNext ==
  \/ SockIncLookup
  \/ ConnIncLoad
  \/ ConnIncCAS
  \/ ConnDecLookup
  \/ ConnDecAdd
  \/ SockWrap
  \/ SockClose
  \/ SockDial

SpecSocks == SocksStart /\ [][SockNext]_vars

\* --------------------------------------------------------- the client alone
ClientRun == \E ver \in Versions, filterOk \in BOOLEAN : CRun(ver, filterOk)

ClientConnect == \E outcome \in ConnectOutcomes : CConnect(outcome)

ClientNext ==
  \/ ClientRun
  \/ CTop
  \/ ClientConnect
  \/ CSessionEnd
  \/ CDelayOver
  \/ CDelayCancelled
  \/ CCancel

\* the timer of the delay fires, and the loop goes on when it has
SpecClient ==
  /\ Init
  /\ [][ClientNext]_vars
  /\ WF_vars(CDelayOver)
  /\ WF_vars(CTop)

\* ------------------------------------------- the manager and the client it runs
MgrStartCheck == \E t \in Starters : MStartCheck(t)

MgrStart == \E t \in Starters, maxRetries \in {0, MaxRestarts} : MStart(t, maxRetries)

MgrRun == \E filterOk \in BOOLEAN : MRun(filterOk)

MgrDelay == \E over \in BOOLEAN : MDelay(over)

\* the steps of Client.Run while the manager waits for it to return
MgrClient ==
  /\ manager.pc = "running"
  /\ \/ CTop
     \/ ClientConnect
     \/ CSessionEnd
     \/ CDelayOver
     \/ CDelayCancelled

ManagerNext ==
  \/ MStartInvalid
  \/ MgrStartCheck
  \/ MgrStart
  \/ MLoop
  \/ MgrRun
  \/ MgrClient
  \/ MReturned
  \/ MgrDelay
  \/ MStop
  \/ MStopCancel

SpecManager == Init /\ [][ManagerNext]_vars

\* the manager when every configuration handed to Start is valid
RestartNext ==
  \/ MgrStartCheck
  \/ MgrStart
  \/ MLoop
  \/ MgrRun
  \/ MgrClient
  \/ MReturned
  \/ MgrDelay
  \/ MStop
  \/ MStopCancel

SpecRestart == Init /\ [][RestartNext]_vars

\* ------------------------------------------------ the server until it is stopped
\* a connection is accepted while the socket listens
StopAccept == start.listening /\ SrvAccept

\* the steps of the handlers, which go on after Start has returned
StopHandlers ==
  \/ SrvCheckBlocked
  \/ SrvHello
  \/ SrvReserve
  \/ SrvListen
  \/ SrvBind
  \/ SrvReturn

StopNext ==
  \/ StopAccept
  \/ StopHandlers
  \/ SrvSessionClosed
  \/ SCancel
  \/ SCloseListener
  \/ SAcceptFails

\* every goroutine of the server gets its turn; when a client's session ends is up
\* to the client
SpecStop ==
  /\ Init
  /\ [][StopNext]_vars
  /\ WF_vars(StopHandlers)
  /\ WF_vars(SCloseListener)
  /\ WF_vars(SAcceptFails)

\* ------------------------------------------------- the address filter, called
\* a filter built by NewAddressFilter from any configuration
FilterStart ==
  /\ RegInit /\ SrvInit /\ SocksInit /\ ClientInit /\ ManagerInit /\ StartInit /\ StreamInit
  /\ CodecInit /\ BindCallInit
  /\ \E af \in AddressFilters :
       filter = [af |-> af, addr |-> NoAddr, err |-> "nil", called |-> FALSE]

FilterCall == \E addr \in Addrs : FIsAllowed(addr)

FilterNext == FilterCall

SpecFilter == FilterStart /\ [][FilterNext]_vars

\* ------------------------------------------------- one sub-stream of the client
StreamRead == \E ok \in BOOLEAN, addr \in Addrs : HSRead(ok, addr)

StreamDial == \E ok, cleared \in BOOLEAN, ip \in IPv4s \cup HostIPs : HSDial(ok, cleared, ip)

StreamNext ==
  \/ StreamRead
  \/ HSFilter
  \/ StreamDial
  \/ HSCopyBack
  \/ HSCopyDone
  \/ HSReturn

SpecStream == FilterStart /\ [][StreamNext]_vars

\* ------------------------------------------------- the codec, written and read
CodecStart ==
  /\ RegInit /\ SrvInit /\ SocksInit /\ ClientInit /\ ManagerInit /\ StartInit
  /\ FilterInit /\ StreamInit /\ BindCallInit
  /\ \E msg \in Messages, tail \in Tails :
       codec = [pc |-> "new", msg |-> msg, tail |-> tail, w |-> NoWrote, r |-> NoGot]

CodecNext ==
  \/ CWrite
  \/ CRead

SpecCodec == CodecStart /\ [][CodecNext]_vars

\* ------------------------------------------ BindSession, called and answered
\* a caller reserves one port
BindReserve ==
  \E port \in Ports :
    LET free == {r \in Reservations : closures[r] = NoClosure}
    IN /\ free # {}
       /\ ReservePorts(MinOf(free), <<port>>)
       /\ grants' = LiveGrants(grants \cup
                       (IF FirstInUse(slots, <<port>>) = 0 THEN {<<MinOf(free), port>>} ELSE {}),
                       slots')
       /\ lis' = IF FirstInUse(slots, <<port>>) = 0 THEN Listeners ELSE lis
       /\ UNCHANGED <<thr, srv>>

\* BindSession is called for any port, reserved or not, bound or not, and its
\* result is kept
BindCall ==
  \E port \in Ports, cap \in Caps :
    /\ BindSession(port, slots[port], cap)
    /\ lis' = IF BindError(slots, port) THEN lis ELSE OpenListener(Listeners, slots[port])
    /\ bindCall' = [made |-> TRUE, port |-> port, hadSlot |-> slots[port] # 0,
                    hadSession |-> slots[port] # 0 /\ slotObj[slots[port]].session,
                    err |-> IF BindError(slots, port) THEN "PortNotReservedError" ELSE "nil"]
    /\ UNCHANGED <<thr, grants, sem, limiters, now, conns, socks, client, manager, start,
                   egress, codec>>

BindRelease ==
  \E port \in Ports :
    /\ ReleasePorts(<<port>>)
    /\ grants' = LiveGrants(grants, slots')
    /\ UNCHANGED <<thr, srv>>

BindNext ==
  \/ BindReserve
  \/ BindCall
  \/ BindRelease

SpecBind == Init /\ [][BindNext]_vars

\* ------------------------- the counters of a port that changes hands
\* Ports are reserved, bound and released by successive control connections while
\* SOCKS connections on the first port increment, and later decrement, its counter.
\* the control connection that reserved a port binds it, once
RecountBind ==
  \E port \in Ports :
    /\ slots[port] # 0
    /\ ~slotObj[slots[port]].session
    /\ BindSession(port, slots[port], MaxCap)
    /\ lis' = OpenListener(Listeners, slots[port])
    /\ UNCHANGED <<thr, grants, srv>>

RecountNext ==
  \/ BindReserve
  \/ RecountBind
  \/ BindRelease
  \/ ConnIncLookup
  \/ ConnIncLoad
  \/ ConnIncCAS
  \/ ConnDecLookup
  \/ ConnDecAdd

SpecRecount == Init /\ [][RecountNext]_vars

\* ------------------------------------------------------------------ claims
HasSlot(p) == slots[p] # 0

Collides(ports) == \E i \in 1..Len(ports) : HasSlot(ports[i])

Removed(s) == \A p \in Ports : slots[p] # s

\* C1, the error: in every reachable registry, for every request, the PortInUseError
\* names a requested port that has a slot and that no requested port before it has;
\* the error is nil exactly when no requested port has a slot.
C1_ErrorNamesFirst ==
  \A ports \in PortSeqs :
    LET e == FirstInUse(slots, ports)
    IN IF Collides(ports)
       THEN \E i \in 1..Len(ports) :
              /\ ports[i] = e
              /\ HasSlot(e)
              /\ \A j \in 1..(i - 1) : ~HasSlot(ports[j])
       ELSE e = 0

\* C1: a ReservePorts call that finds a requested port already reserved returns a
\* PortInUseError naming the first such port in request order, and leaves the
\* registry as it was: no slot inserted, changed or removed.
C1_ReserveCollisionLeavesRegistry ==
  /\ []C1_ErrorNamesFirst
  /\ [][\A ports \in PortSeqs :
          Collides(ports)
            => \A r \in Reservations :
                 ReservePorts(r, ports) => UNCHANGED <<slots, slotObj, closures, lis>>]_vars

\* a two-port request whose first port is free and whose second is reserved; the
\* failed call changes nothing, so this is also the state it leaves
C1_Witness ==
  \E ports \in PortSeqs :
    /\ Len(ports) = 2
    /\ ~HasSlot(ports[1])
    /\ HasSlot(ports[2])
    /\ FirstInUse(slots, ports) = ports[2]

\* C2, the state: every reserved port is held by exactly one reservation
C2_OneHolder ==
  \A p \in Ports :
    Cardinality({g \in grants : g[2] = p}) = (IF HasSlot(p) THEN 1 ELSE 0)

\* C2: a port is held by at most one reservation at a time, and a ReservePorts call
\* that succeeds finds all its ports free and inserts a placeholder for each of them
\* in the same step.
C2_ExclusiveReservation ==
  /\ []C2_OneHolder
  /\ [][\A r \in Reservations, ports \in PortSeqs :
          (slots' # slots /\ closures'[r] # closures[r] /\ ReservePorts(r, ports))
            => \A p \in SetOf(ports) :
                 /\ ~HasSlot(p)
                 /\ slots'[p] # 0
                 /\ slotObj'[slots'[p]] = NewSlot]_vars

\* two reservations of the same port, the second granted after the first was released
C2_Witness ==
  \E p \in Ports :
    /\ p \in closures[1].ports
    /\ p \in closures[2].ports
    /\ <<2, p>> \in grants

\* the callers that hold an increment they have not given back
Holding == {t \in Callers : thr[t].pc = "holding"}

\* C3, the state: the counter of a slot never exceeds its cap; and when every one of
\* the N callers has finished an IncrementConnections on the same bound slot, none has
\* decremented since, and the counter counts these increments only, exactly
\* min(N, maxConns) of the callers were granted one
C3_CapHolds ==
  \A s \in DOMAIN slotObj :
    /\ slotObj[s].activeConns <= slotObj[s].maxConns
    /\ (/\ \A t \in Callers :
             /\ thr[t].slot = s
             /\ thr[t].bound
             /\ \/ thr[t].pc = "holding"
                \/ thr[t].pc = "idle" /\ thr[t].result = "false"
        /\ slotObj[s].activeConns = Cardinality(Holding))
       => Cardinality(Holding)
            = (IF NumCallers < slotObj[s].maxConns THEN NumCallers ELSE slotObj[s].maxConns)

\* C3: activeConns never exceeds maxConns under any interleaving of increments and
\* decrements; IncrementConnections on a slot returns false exactly when the counter
\* it loads is at maxConns, and true only by moving a counter below maxConns up by one.
C3_ConnectionCap ==
  /\ []C3_CapHolds
  /\ [][\A t \in Callers :
          /\ (IncLoad(t) /\ thr'[t].pc = "idle")
               => slotObj[thr[t].slot].activeConns = slotObj[thr[t].slot].maxConns
          /\ (IncLoad(t) /\ thr'[t].pc = "incCAS")
               => slotObj[thr[t].slot].activeConns < slotObj[thr[t].slot].maxConns
          /\ (IncCAS(t) /\ thr'[t].pc = "holding")
               => /\ slotObj[thr[t].slot].activeConns < slotObj[thr[t].slot].maxConns
                  /\ slotObj'[thr[t].slot].activeConns
                       = slotObj[thr[t].slot].activeConns + 1]_vars

\* every caller has tried a bound slot whose cap is below the number of callers: one
\* was refused
C3_Witness ==
  \E s \in DOMAIN slotObj :
    /\ slotObj[s].session
    /\ slotObj[s].maxConns < NumCallers
    /\ slotObj[s].activeConns = slotObj[s].maxConns
    /\ \A t \in Callers : thr[t].slot = s /\ thr[t].bound /\ thr[t].pc \in {"holding", "idle"}
    /\ \E t \in Callers : thr[t].pc = "idle" /\ thr[t].result = "false"

\* C4: for every slot that has been bound, its cleanup (closing the SOCKS listener)
\* has run exactly once by the time the slot is gone from the registry, whichever of
\* ReleasePorts and the release closure removed it.
C4_CleanupExactlyOnce ==
  \A s \in DOMAIN slotObj :
    (slotObj[s].session /\ Removed(s))
      => (slotObj[s].stopOnce /\ lis[s].closes = 1)

\* C5, the state: no listener is closed more than once
C5_ClosedAtMostOnce == \A s \in DOMAIN lis : lis[s].closes <= 1

\* C5: ReleasePorts, called any number of times with any ports, closes each bound
\* slot's listener at most once, leaves none of the named ports with a slot, and
\* leaves the slot, the slot object and the listener of every other port as they were.
C5_ReleaseIdempotent ==
  /\ []C5_ClosedAtMostOnce
  /\ [][\A ports \in ReleaseArgs :
          (slots' # slots /\ closures' = closures /\ ReleasePorts(ports))
            => /\ \A p \in SetOf(ports) : slots'[p] = 0
               /\ \A p \in Ports \ SetOf(ports) :
                    /\ slots'[p] = slots[p]
                    /\ HasSlot(p) => /\ slotObj'[slots[p]] = slotObj[slots[p]]
                                     /\ lis'[slots[p]] = lis[slots[p]]
               /\ \A s \in DOMAIN lis : lis'[s].closes <= lis[s].closes + 1]_vars

\* a bound slot released by ReleasePorts, its listener closed once, while the slot of
\* another port stays
C5_Witness ==
  \E s \in DOMAIN slotObj :
    /\ slotObj[s].session
    /\ slotObj[s].stopOnce
    /\ lis[s].closes = 1
    /\ Removed(s)
    /\ \E p \in Ports : HasSlot(p)

Ended(c) == conns[c].pc \in {"done", "rejected"}

\* C6: a handler that has returned, whichever step failed after its reservation or
\* after the session closed, has left none of its slots in the registry, none of its
\* placeholder listeners open and none of its SOCKS listeners open.
C6_HandlerLeavesNothing ==
  \A c \in Conns :
    conns[c].pc = "done"
      => /\ conns[c].tcpL = {}
         /\ \A p \in Ports :
              /\ slots[p] # SlotId(c, p)
              /\ ~lis[SlotId(c, p)].open

\* C7, the state: at most maxClients handlers are in flight; a rejected connection is
\* closed, was never read or written and never had a handler; and the accept loop can
\* always take the next connection, Acquire never blocking it
C7_AtMostMaxClients ==
  /\ Cardinality(InFlight) <= MaxClients
  /\ \A c \in Conns :
       conns[c].pc = "rejected"
         => /\ conns[c].closed
            /\ ~conns[c].read
            /\ conns[c].sent = "none"
            /\ conns[c].exit = "none"
            /\ conns[c].released = 0
  /\ (\E c \in Conns : conns[c].pc = "new") => ENABLED SrvAccept

\* C7: the number of handlers in flight never exceeds maxClients; Acquire does not
\* block, lets a handler start only while fewer than maxClients slots are held, and a
\* connection it refuses is closed unread with no handler started.
C7_AdmissionCap ==
  /\ []C7_AtMostMaxClients
  /\ [][\A c \in Conns, ip \in IPs :
          Accept(c, ip)
            => /\ conns'[c].pc = "check" <=> sem < MaxClients
               /\ conns'[c].pc = "rejected" <=> sem >= MaxClients
               /\ conns'[c].pc = "check" => sem' = sem + 1]_vars

\* maxClients handlers in flight and a further connection refused
C7_Witness ==
  /\ Cardinality(InFlight) = MaxClients
  /\ \E c \in Conns : conns[c].pc = "rejected" /\ conns[c].closed

\* the return statements of the handler
Exits == {"connError", "blocked", "badHello", "authFail", "forbidden", "portInUse",
          "listenFail", "noReply", "noSession", "startFail", "bindFail", "sessionEnd"}

\* C8, the state: a handler has called Release once when it is done and not before,
\* the limiter holds one slot per handler in flight, and once every connection is
\* done or refused Available() is maxClients again
C8_SlotsHeld ==
  /\ \A c \in Conns : conns[c].released = (IF conns[c].pc = "done" THEN 1 ELSE 0)
  /\ \A c \in Conns : conns[c].pc = "ret" <=> conns[c].exit \in Exits
  /\ sem = Cardinality(InFlight)
  /\ (\A c \in Conns : Ended(c)) => Available(sem) = MaxClients

\* C8: every handler started after a successful Acquire calls Release exactly once,
\* at its return, whichever return statement it took, and the call gives one slot
\* back; when all handlers have ended Available() equals maxClients.
C8_ReleasePairsAcquire ==
  /\ []C8_SlotsHeld
  /\ [][\A c \in Conns :
          /\ conns'[c].released # conns[c].released => HReturn(c)
          /\ (conns'[c].pc = "done" /\ HReturn(c))
               => /\ conns[c].exit \in Exits
                  /\ conns'[c].released = 1
                  /\ sem' = sem - 1]_vars

\* every connection has ended, two of them in a handler that gave its slot back and
\* one of these after a wrong token, and the limiter is empty
C8_Witness ==
  /\ \A c \in Conns : Ended(c)
  /\ Cardinality({c \in Conns : conns[c].pc = "done" /\ conns[c].released = 1}) >= 2
  /\ \E ip \in IPs : limiters[ip].failures > 0
  /\ sem = 0

\* C9, the state: a handler that found its address blocked has written nothing, read
\* nothing and recorded no failure, and is on its way out or has closed the connection
C9_BlockedSilent ==
  \A c \in Conns :
    conns[c].blocked
      => /\ conns[c].sent = "none"
         /\ ~conns[c].read
         /\ conns[c].recorded = 0
         /\ \/ conns[c].pc = "ret" /\ conns[c].exit = "blocked"
            \/ conns[c].pc = "done" /\ conns[c].closed

\* C9: when IsBlocked holds for the remote IP at the handler's check, the handler
\* returns and closes the connection without writing a byte, without reading the HELLO
\* and without touching the failure records of the rate limiter.
C9_BlockedClosedWithoutWrite ==
  /\ []C9_BlockedSilent
  /\ [][\A c \in Conns :
          /\ (conns[c].pc = "check" /\ IsBlocked(limiters, conns[c].ip, now)
                /\ HCheckBlocked(c, TRUE))
               => /\ conns'[c].pc = "ret"
                  /\ conns'[c].blocked
                  /\ limiters' = limiters
          /\ (conns[c].blocked /\ conns'[c].pc = "done" /\ HReturn(c))
               => /\ conns'[c].closed
                  /\ limiters' = limiters]_vars

\* a connection from a blocked address, closed by its handler
C9_Witness ==
  \E c \in Conns :
    /\ conns[c].blocked
    /\ conns[c].pc = "done"
    /\ conns[c].closed
    /\ \E ip \in IPs : limiters[ip].failures >= MaxFailures

\* C10, the state: a handler that met a wrong token has recorded one failure and sent
\* AUTH_FAIL, whether or not RecordFailure said the address is now blocked
C10_OneFailureOneReply ==
  \A c \in Conns :
    conns[c].exit = "authFail"
      => /\ conns[c].sent = "AUTH_FAIL"
         /\ conns[c].recorded = 1
         /\ conns[c].read

\* C10: on a wrong token the handler calls RecordFailure once for the remote IP, which
\* adds one to its failure count, and replies HELLO_RESP{AUTH_FAIL} before it closes,
\* the reply being the same on the attempt that begins the block.
C10_AuthFailReply ==
  /\ []C10_OneFailureOneReply
  /\ [][\A c \in Conns :
          /\ HHello(c, [kind |-> "token", ports |-> <<>>])
               => /\ limiters'[conns[c].ip].failures
                       = (IF limiters[conns[c].ip].exists
                          THEN limiters[conns[c].ip].failures ELSE 0) + 1
                  /\ \A ip \in IPs \ {conns[c].ip} : limiters'[ip] = limiters[ip]
                  /\ conns'[c].sent = "AUTH_FAIL"
                  /\ conns'[c].recorded = 1
                  /\ ~conns'[c].closed
          /\ (conns[c].exit = "authFail" /\ conns'[c].pc = "done" /\ HReturn(c))
               => /\ conns'[c].closed
                  /\ limiters' = limiters]_vars

\* two wrong tokens answered alike, the handlers about to close: the first left the
\* address unblocked, the second began the block
C10_Witness ==
  \E c, d \in Conns :
    /\ conns[c].exit = "authFail" /\ ~conns[c].shouldBlock /\ conns[c].pc = "ret"
    /\ conns[d].exit = "authFail" /\ conns[d].shouldBlock /\ conns[d].pc = "ret"
    /\ conns[c].sent = conns[d].sent
    /\ \E ip \in IPs : limiters[ip].blockedAt # ZeroTime

\* the failure counter of an address, 0 while it has no entry
Failures(l, ip) == IF l[ip].exists THEN l[ip].failures ELSE 0

\* the step of a handler whose HELLO carries the right token: line 101 calls Reset
ResetStep(c) ==
  /\ conns[c].pc = "hello"
  /\ \E ports \in HelloPorts : HHello(c, [kind |-> "ok", ports |-> ports])

\* the step of a handler whose HELLO carries a wrong token: line 90 calls RecordFailure
FailureStep(c) ==
  /\ conns[c].pc = "hello"
  /\ HHello(c, [kind |-> "token", ports |-> <<>>])

\* C11, the state: an address without a record is not blocked, and an address
\* carries a block stamp only when maxFailures failures or more are on its record
C11_StampNeedsFailures ==
  \A ip \in IPs :
    /\ ~limiters[ip].exists => ~IsBlocked(limiters, ip, now)
    /\ limiters[ip].blockedAt # ZeroTime
         => limiters[ip].exists /\ limiters[ip].failures >= MaxFailures

\* C11: a handshake with the right token deletes the failure record of its address;
\* a handler that then finds no record for its address reads the HELLO, and a wrong
\* token it reads is answered AUTH_FAIL, counts as the first failure, and blocks the
\* address only if maxFailures is 1.
C11_ResetClearsRecord ==
  /\ []C11_StampNeedsFailures
  /\ [][\A c \in Conns :
          /\ ResetStep(c)
               => /\ limiters'[conns[c].ip] = NoEntry
                  /\ Failures(limiters', conns[c].ip) = 0
                  /\ ~IsBlocked(limiters', conns[c].ip, now)
          /\ (conns[c].pc = "check" /\ ~limiters[conns[c].ip].exists
                /\ HCheckBlocked(c, TRUE))
               => conns'[c].pc = "hello"
          /\ (FailureStep(c) /\ ~limiters[conns[c].ip].exists)
               => /\ conns'[c].sent = "AUTH_FAIL"
                  /\ Failures(limiters', conns[c].ip) = 1
                  /\ IsBlocked(limiters', conns[c].ip, now) <=> MaxFailures = 1]_vars

\* a wrong token was recorded by a handler still on its way out, and the handshake of
\* another handler, past its token check, has deleted the record
C11_Witness ==
  \E c, d \in Conns :
    /\ conns[c].pc = "ret" /\ conns[c].exit = "authFail" /\ conns[c].recorded = 1
    /\ conns[d].pc = "reserve"
    /\ \A ip \in IPs : limiters[ip] = NoEntry

\* C12: once blockedAt is set for an address it stays as set, so that IsBlocked holds
\* for blockDuration from that moment and not after, until a Reset deletes the record
\* or the sweep evicts it after the block has run out.
C12_BlockLastsBlockDuration ==
  [][\A ip \in IPs :
       limiters[ip].blockedAt # ZeroTime
         => \/ limiters'[ip].blockedAt = limiters[ip].blockedAt
            \/ \E c \in Conns : ResetStep(c)
            \/ limiters'[ip] = NoEntry /\ ~IsBlocked(limiters, ip, now)]_vars

\* C13 as stated: without a Reset the failure counter of an address never goes down,
\* whatever RecordFailure, IsBlocked or the sweep do.
C13_CounterNeverDecreases ==
  [][\A ip \in IPs :
       \/ Failures(limiters', ip) >= Failures(limiters, ip)
       \/ \E c \in Conns : ResetStep(c)]_vars

\* C13, amended: without a Reset the failure counter of an address never goes down
\* while its entry exists; the sweep leaves it as it is or evicts the entry, and it
\* evicts only an entry stamped more than 2 x blockDuration ago.
C13_CounterMonotoneUntilEvicted ==
  [][\A ip \in IPs :
       \/ Failures(limiters', ip) >= Failures(limiters, ip)
       \/ \E c \in Conns : ResetStep(c)
       \/ /\ limiters'[ip] = NoEntry
          /\ limiters[ip].blockedAt # ZeroTime
          /\ now - limiters[ip].blockedAt > BlockDuration * 2
          /\ UNCHANGED conns]_vars

\* two handlers recorded a wrong token each and are on their way out, no other handler
\* has started, so none called Reset, and the record is gone: the sweep evicted it
C13_Witness ==
  \E c, d \in Conns :
    /\ c # d
    /\ \A e \in {c, d} : conns[e].pc = "ret" /\ conns[e].exit = "authFail" /\ conns[e].recorded = 1
    /\ \A e \in Conns \ {c, d} : conns[e].pc = "new"
    /\ \A ip \in IPs : limiters[ip] = NoEntry

\* C14, the state: an address with fewer than maxFailures failures on record carries
\* no stamp and is not blocked
C14_BelowThresholdUnblocked ==
  \A ip \in IPs :
    Failures(limiters, ip) < MaxFailures
      => limiters[ip].blockedAt = ZeroTime /\ ~IsBlocked(limiters, ip, now)

C15_PortInUseLeavesHolder ==
  [][\A c \in Conns :
       /\ (conns[c].pc = "reserve" /\ FirstInUse(slots, conns[c].ports) # 0 /\ HReserve(c))
            => /\ conns'[c].sent = "PORT_IN_USE"
               /\ conns'[c].pc = "ret"
               /\ ~conns'[c].reserved
               /\ UNCHANGED <<slots, slotObj, lis, closures, grants>>
               /\ \A a \in Conns \ {c} : conns'[a] = conns[a]
       /\ (conns[c].exit = "portInUse" /\ conns'[c].pc = "done" /\ HReturn(c))
            => /\ UNCHANGED <<slots, slotObj, lis, closures, grants>>
               /\ \A a \in Conns \ {c} : conns'[a] = conns[a]]_vars

\* a client serves on a port, session bound and SOCKS listener open, and the handler
\* of another client has answered PORT_IN_USE
C15_Witness ==
  \E a, b \in Conns :
    /\ a # b
    /\ conns[a].pc = "serving"
    /\ \E p \in conns[a].socksL :
         /\ slots[p] = SlotId(a, p)
         /\ slotObj[slots[p]].session
         /\ lis[slots[p]].open
    /\ conns[b].pc = "ret" /\ conns[b].exit = "portInUse" /\ conns[b].sent = "PORT_IN_USE"

\* C16: a call of the dialer for a port that has no slot, or whose slot has
\* activeConns at maxConns, fails with "connection limit reached", opens no
\* sub-stream and leaves activeConns as it was.
C16_DialerRefusesAtLimit ==
  [][\A port \in Ports :
       (AtLimit(port) /\ socks'.dial.port = port
          /\ \E outcome \in DialOutcomes : Dial(port, outcome))
         => /\ socks'.dial.err = "connection limit reached"
            /\ ~socks'.dial.opened
            /\ UNCHANGED slotObj]_vars

\* the callers that hold a counted connection of port p they have not given back
Owing(p) == {t \in Callers : thr[t].pc \in {"holding", "decAdd"} /\ thr[t].port = p}

\* the counting sub-streams of port p not yet closed
OpenStreams(p) == {w \in Streams : socks.streams[w].made /\ ~socks.streams[w].closed
                                      /\ socks.streams[w].port = p}

\* C17, the state: the counter of a port is the number of counted connections not yet
\* given back, each sub-stream counting once until its first Close and never after,
\* and the wrapped connection is closed at most once
C17_CountFollowsStreams ==
  /\ \A p \in Ports :
       slots[p] # 0
         => slotObj[slots[p]].activeConns = Cardinality(Owing(p)) + Cardinality(OpenStreams(p))
  /\ \A w \in Streams : socks.streams[w].connCloses <= 1

\* C17: Close of a counting sub-stream is idempotent: the first call gives the
\* connection back to the counter once, and a call on a closed sub-stream, also while
\* the first is still running, changes neither the counter nor the connection.
C17_CloseDecrementsOnce ==
  /\ []C17_CountFollowsStreams
  /\ [][\A t \in Callers, w \in Streams :
          (socks.streams[w].closed /\ StreamClose(t, w))
            => /\ UNCHANGED <<slotObj, thr>>
               /\ socks'.streams[w].connCloses = socks.streams[w].connCloses]_vars

\* a sub-stream closed by every call it can get, no decrement under way, and the
\* counter of its port back at 0
C17_Witness ==
  \E w \in Streams :
    /\ socks.streams[w].closed
    /\ socks.streams[w].calls = MaxCloses
    /\ \A t \in Callers : thr[t].pc = "idle"
    /\ slotObj[slots[socks.streams[w].port]].activeConns = 0

\* C19, the state: Run has returned only with AUTH_FAIL or PORT_IN_USE, read from
\* the last reply, with the error of the context, or before its first attempt
C19_ReturnsOnlyOnTerminal ==
  client.pc = "returned"
    => \/ client.result \in {"AUTH_FAIL", "PORT_IN_USE"} /\ client.last = client.result
       \/ client.result = "ctxErr" /\ client.cancelled
       \/ client.result = "filterErr" /\ client.attempts = 0

\* C19: a reply of AUTH_FAIL or PORT_IN_USE makes Run return that error, and Run makes
\* no attempt once it has returned; any other reply status, an I/O error and the end of
\* a session take Run to its delay, which ends in the next attempt or, if the
\* context is cancelled, in the return; with the context never cancelled the next
\* attempt comes.
C19_RetryUnlessTerminal ==
  /\ []C19_ReturnsOnlyOnTerminal
  /\ [][/\ (client.pc = "connect" /\ client'.attempts = client.attempts + 1)
             => IF client'.last \in {"AUTH_FAIL", "PORT_IN_USE"}
                THEN client'.pc = "returned" /\ client'.result = client'.last
                ELSE IF client'.last = "OK" THEN client'.pc = "session"
                ELSE client'.pc = "wait"
        /\ client.pc = "session" => client'.pc \in {"session", "wait"}
        /\ client.pc = "wait"
             => \/ client'.pc = "wait"
                \/ client'.pc = "top"
                \/ client.cancelled /\ client'.pc = "returned" /\ client'.result = "ctxErr"
        /\ client.pc = "top"
             => \/ client'.pc = "top"
                \/ ~client.cancelled /\ client'.pc = "connect"
                \/ client.cancelled /\ client'.pc = "returned" /\ client'.result = "ctxErr"
        /\ client.pc = "returned"
             => client'.pc = "returned" /\ client'.attempts = client.attempts]_vars
  /\ (client.pc = "wait") ~> (client.pc = "connect" \/ client.cancelled)

\* Run made an attempt that failed without a terminal status, made another after the
\* delay, and returned on its PORT_IN_USE
C19_Witness ==
  /\ client.pc = "returned"
  /\ client.result = "PORT_IN_USE"
  /\ client.attempts >= 2
  /\ ~client.cancelled

\* C20 as stated: a reply of PORT_FORBIDDEN makes Run return, without a further attempt.
C20_ForbiddenIsTerminal ==
  [][(client.pc = "connect" /\ client'.last = "PORT_FORBIDDEN"
        /\ client'.attempts = client.attempts + 1)
       => client'.pc = "returned"]_vars

\* C20, amended: a reply of PORT_FORBIDDEN does not make Run return: Run goes to its
\* delay like after any reply but AUTH_FAIL and PORT_IN_USE, and has returned after a
\* PORT_FORBIDDEN only with the error of a cancelled context.
C20_ForbiddenIsRetried ==
  /\ [](client.last = "PORT_FORBIDDEN" /\ client.pc = "returned"
          => client.result = "ctxErr" /\ client.cancelled)
  /\ [][(client.pc = "connect" /\ client'.last = "PORT_FORBIDDEN"
           /\ client'.attempts = client.attempts + 1)
          => client'.pc = "wait" /\ client'.result = "none"]_vars

\* after a reply of PORT_FORBIDDEN and the delay, Run is about to connect again
C20_Witness ==
  /\ client.last = "PORT_FORBIDDEN"
  /\ client.pc = "connect"
  /\ ~client.cancelled

\* C21: once Client.Run has returned AUTH_FAIL or PORT_IN_USE, runWithAutoRestart
\* leaves its loop: it neither waits for a restart nor starts another attempt.
C21_NoRestartAfterTerminal ==
  [][(manager.pc = "running" /\ client.pc = "returned"
        /\ client.result \in {"AUTH_FAIL", "PORT_IN_USE"} /\ MReturned)
       => manager'.pc = "exited"]_vars

\* C22: once the context of the server is cancelled, the accept loop returns, no
\* handler keeps a control connection open, and the registry holds no slot.
C22_ShutdownDrains ==
  start.ctxDone ~> (/\ start.returned
                    /\ \A c \in Conns : conns[c].pc \in {"new", "rejected", "done"}
                    /\ \A p \in Ports : slots[p] = 0)

\* C23: over the lifetime of a control connection, Close is invoked exactly once on
\* each SOCKS listener its handler started: a listener still open was never closed, a
\* closed one was closed once, both after a failure in the bind loop and when the
\* handler returns after the session ended.
C23_ListenerClosedOnce ==
  /\ [](\A s \in DOMAIN lis :
          lis[s] # NoListener => lis[s].closes = (IF lis[s].open THEN 0 ELSE 1))
  /\ [][\A c \in Conns :
          (conns[c].pc = "ret" /\ ~conns[c].cleaned /\ conns'[c].pc = "done")
            => \A p \in conns[c].socksL : AfterCleanup(c).lis[SlotId(c, p)].closes = 1]_vars

\* C24, the state: a handler that has created the session, started a SOCKS listener
\* or bound a port has sent HELLO_RESP{OK}, and GetSession finds a session only for
\* the port of such a handler
C24_NothingBeforeOK ==
  /\ \A c \in Conns :
       (conns[c].pc \in {"bind", "serving"} \/ conns[c].socksL # {}) => conns[c].sent = "OK"
  /\ \A p \in Ports :
       GetSession(p) => /\ OwnerOf(slots[p]) \in Conns
                        /\ conns[OwnerOf(slots[p])].sent = "OK"
  /\ \A s \in DOMAIN lis :
       lis[s].open => /\ OwnerOf(s) \in Conns
                      /\ conns[OwnerOf(s)].sent = "OK"

\* C24: the server creates the session, starts the SOCKS listeners and binds the
\* session only after HELLO_RESP{OK} has been written: every step that opens a SOCKS
\* listener or binds a slot is taken by a handler that had sent OK before, and until
\* then GetSession reports not found for its ports.
C24_SessionAfterOK ==
  /\ []C24_NothingBeforeOK
  /\ [][\A s \in DOMAIN slotObj :
          ((~slotObj[s].session /\ slotObj'[s].session) \/ (~lis[s].open /\ lis'[s].open))
            => /\ OwnerOf(s) \in Conns
               /\ conns[OwnerOf(s)].sent = "OK"
               /\ conns[OwnerOf(s)].pc = "bind"]_vars

\* one client bound and found by GetSession, while another handler holds a reserved
\* port, has sent nothing yet, and GetSession finds nothing for that port
C24_Witness ==
  \E c, d \in Conns : \E p, q \in Ports :
    /\ conns[c].pc = "serving" /\ conns[c].sent = "OK"
    /\ slots[p] = SlotId(c, p) /\ GetSession(p)
    /\ conns[d].pc = "listen" /\ conns[d].sent = "none"
    /\ slots[q] = SlotId(d, q) /\ ~GetSession(q)

\* C25, the state: once the filter has rejected the address of a CONNECT_REQ, the
\* handler has dialled nothing and written nothing to the sub-stream, and it is on its
\* way out or has closed the sub-stream
C25_RejectedNeverDialled ==
  (filter.called /\ filter.err # "nil")
    => /\ ~stream.dialed
       /\ stream.target = "none"
       /\ stream.written = 0
       /\ \/ stream.pc = "ret" /\ ~stream.closed
          \/ stream.pc = "done" /\ stream.closed

\* C25: in handleStream a CONNECT_REQ whose address the filter rejects never leads to
\* an egress dial: the handler returns at once, the sub-stream is closed, and no byte
\* is written to it.
C25_FilterBlocksDial ==
  /\ []C25_RejectedNeverDialled
  /\ [][/\ (stream.pc = "filter" /\ IsAllowed(filter.af, stream.addr) # "nil")
             => (stream'.pc = "ret" /\ filter'.err = IsAllowed(filter.af, stream.addr))
        /\ (stream.pc = "ret" /\ filter.err # "nil") => stream'.closed]_vars

\* a CONNECT_REQ for a private address, rejected by a filter that does not allow
\* private networks: the sub-stream is closed, nothing was dialled or written
C25_Witness ==
  /\ stream.pc = "done"
  /\ stream.closed
  /\ stream.addr.kind = "ip"
  /\ isPrivateNetwork(stream.addr.ips[1])
  /\ ~filter.af.allowPrivate
  /\ filter.err = "private network addresses are not allowed"
  /\ ~stream.dialed
  /\ stream.written = 0

\* the categories of config.go 148-165 as networks
InNet(ip, a, b, bits) == Contains([ip |-> <<a, b, 0, 0>>, bits |-> bits], ip)

Loopback(ip) == InNet(ip, 127, 0, 8)

LinkLocal(ip) == InNet(ip, 169, 254, 16)

Private(ip) == InNet(ip, 10, 0, 8) \/ InNet(ip, 172, 16, 12) \/ InNet(ip, 192, 168, 16)

Custom(af, ip) == \E j \in 1..Len(af.blockedNets) : Contains(af.blockedNets[j], ip)

\* the address IsAllowed examined in the call the filter records
Examined == filter.addr.ips[1]

\* C26: IsAllowed rejects a loopback and a link-local target whatever allowPrivate is,
\* a private target unless allowPrivate is set, and a target inside a custom blocked
\* network whatever allowPrivate is; when several categories apply the error names the
\* first of loopback, link-local, private, custom; a target in none of them is allowed.
C26_FilterPrecedence ==
  (filter.called /\ filter.addr.ips # <<>> /\ ~filter.addr.failed)
    => /\ Loopback(Examined) => filter.err = "loopback addresses are not allowed"
       /\ (LinkLocal(Examined) /\ ~Loopback(Examined))
            => filter.err = "link-local addresses are not allowed"
       /\ (Private(Examined) /\ ~filter.af.allowPrivate)
            => filter.err = "private network addresses are not allowed"
       /\ (Custom(filter.af, Examined) /\ ~Loopback(Examined) /\ ~LinkLocal(Examined)
             /\ (Private(Examined) => filter.af.allowPrivate))
            => filter.err = "address is in a blocked network"
       /\ (~Loopback(Examined) /\ ~LinkLocal(Examined) /\ ~Custom(filter.af, Examined)
             /\ (Private(Examined) => filter.af.allowPrivate))
            => filter.err = "nil"

\* a private address inside a custom blocked network, with allowPrivate set: the
\* custom network rejects it
C26_Witness ==
  /\ filter.called
  /\ filter.af.allowPrivate
  /\ filter.addr.kind = "ip"
  /\ Private(Examined)
  /\ Custom(filter.af, Examined)
  /\ filter.err = "address is in a blocked network"

\* C27: for every Hello, HelloResp and ConnectReq the writer accepts, the reader,
\* given the bytes written and whatever follows them, returns no error and an equal
\* value, and leaves exactly what followed.
C27_ReadAfterWrite ==
  codec.pc = "read" => codec.r = Got("nil", codec.msg, codec.tail)

\* a HELLO with the longest token and sixteen ports, read back from a buffer that
\* holds more than the message
C27_Witness ==
  /\ codec.pc = "read"
  /\ codec.msg.type = "Hello"
  /\ Len(codec.msg.token) = MaxTokenLen
  /\ Len(codec.msg.ports) = MaxPortCount
  /\ codec.tail # <<>>
  /\ codec.r.err = "nil"
  /\ Len(codec.w.out) = 4 + 1 + 1 + MaxTokenLen + 1 + 2 * MaxPortCount + 1 + Len(codec.msg.name)

\* the bounds of the data model a message breaks
OutOfBounds(m) ==
  IF m.type = "Hello"
  THEN \/ m.magic # MagicValue
       \/ m.version # Version
       \/ Len(m.token) \notin 1..255
       \/ Len(m.ports) \notin 1..16
       \/ \E j \in 1..Len(m.ports) : m.ports[j] \notin 1..65535
       \/ Len(m.name) \notin 0..64
  ELSE IF m.type = "HelloResp"
  THEN \/ m.version # Version
       \/ Len(m.acceptedPorts) > 16
       \/ Len(m.message) \notin 0..255
       \/ m.status \notin 0..5
  ELSE Len(m.addr) \notin 1..1024

\* C28: for every value that breaks a bound of the data model (magic, version, token
\* length, port count, a port outside 1-65535, name length, accepted port count,
\* message length, a status outside 0-5, address length) the writer returns an error
\* and writes no byte.
C28_WriterRejectsOutOfBounds ==
  (codec.pc # "new" /\ OutOfBounds(codec.msg))
    => (codec.w.err \notin {"nil", "none"} /\ codec.w.out = <<>>)

\* C29: the release closure of a reservation is idempotent: its first call removes
\* the ports it reserved from the map and touches no other port, and every later
\* call changes nothing in the registry, whoever holds those ports by then.
C29_ReleaseFuncIdempotent ==
  [][\A r \in Reservations :
       /\ (closures[r].released /\ ReleaseFunc(r))
            => UNCHANGED <<slots, slotObj, closures, lis>>
       /\ (closures[r] # NoClosure /\ ~closures[r].released /\ ReleaseFunc(r))
            => /\ closures'[r].released
               /\ \A p \in Ports :
                    slots'[p] = (IF p \in closures[r].ports THEN 0 ELSE slots[p])
               /\ \A q \in Reservations \ {r} : closures'[q] = closures[q]]_vars

\* a closure that has run, while another reservation holds every port
C29_Witness ==
  \E r, q \in Reservations :
    /\ r # q
    /\ closures[r].released
    /\ closures[q] # NoClosure /\ ~closures[q].released
    /\ \A p \in Ports : slots[p] = SlotId(q, p)

\* C30: BindSession returns PortNotReservedError and changes nothing when the port
\* has no slot; it succeeds only for a reserved slot that has had no session before,
\* and then the slot gets its session, listener and maxConns in the one step.
C30_BindOnlyReservedUnbound ==
  /\ [](bindCall.made
          => /\ bindCall.err = (IF bindCall.hadSlot THEN "nil" ELSE "PortNotReservedError")
             /\ bindCall.err = "nil" => ~bindCall.hadSession)
  /\ [][\A port \in Ports :
          /\ (bindCall'.made /\ bindCall'.port = port /\ bindCall' # bindCall
                /\ bindCall'.err = "PortNotReservedError")
               => UNCHANGED <<slots, slotObj, closures, lis>>
          /\ (bindCall'.made /\ bindCall'.port = port /\ bindCall' # bindCall
                /\ bindCall'.err = "nil")
               => /\ slotObj'[slots[port]].session
                  /\ slotObj'[slots[port]].listener = slots[port]
                  /\ slotObj'[slots[port]].maxConns \in Caps
                  /\ slots' = slots]_vars

\* C31: GetSession reports found only for a port whose slot exists and has been bound:
\* a port turns from not found to found only in a successful BindSession call for it,
\* a port that has just been reserved is not found, and a port whose slot has been
\* released, or that has no slot, is not found.
C31_FoundOnlyWhenBound ==
  /\ [](\A p \in Ports : slots[p] = 0 => ~GetSession(p))
  /\ [][\A p \in Ports :
          /\ (~GetSession(p) /\ GetSession(p)')
               => (bindCall'.port = p /\ bindCall'.err = "nil" /\ slots' = slots)
          /\ (slots[p] = 0 /\ slots'[p] # 0) => ~GetSession(p)'
          /\ (slots[p] # 0 /\ slots'[p] = 0) => ~GetSession(p)']_vars

\* one port bound and found, the other reserved and not found
C31_Witness ==
  \E p, q \in Ports :
    /\ GetSession(p)
    /\ bindCall.made /\ bindCall.port = p /\ bindCall.err = "nil"
    /\ slots[q] # 0
    /\ ~GetSession(q)

\* C32: the handler deletes the failure record of the remote address as soon as the
\* token matches, before it looks at the ports: a handshake with the right token that
\* is refused with PORT_FORBIDDEN has cleared the record in that step, and one refused
\* with PORT_IN_USE cleared it before the reservation and leaves it as it was then.
C32_ResetBeforePorts ==
  [][\A c \in Conns :
       /\ (conns[c].pc = "hello" /\ conns'[c].sent = "PORT_FORBIDDEN")
            => /\ limiters'[conns[c].ip] = NoEntry
               /\ conns'[c].pc = "ret"
       /\ (conns[c].pc = "hello" /\ conns'[c].pc = "reserve")
            => limiters'[conns[c].ip] = NoEntry
       /\ (conns[c].pc = "reserve" /\ conns'[c].sent = "PORT_IN_USE")
            => limiters' = limiters]_vars

\* a wrong token was recorded for the address; a later handshake from it with the
\* right token was refused with PORT_FORBIDDEN, and the record is gone
C32_Witness ==
  \E c, d \in Conns :
    /\ conns[d].exit = "authFail" /\ conns[d].recorded = 1
    /\ conns[c].pc = "ret" /\ conns[c].sent = "PORT_FORBIDDEN"
    /\ \A e \in Conns \ {c, d} : conns[e].pc = "new"
    /\ \A ip \in IPs : limiters[ip] = NoEntry

\* the reply the checks of the handler give a HELLO, the first failing check deciding:
\* parsing, then the token, then the port range
FirstRefusal(hello) ==
  IF hello.kind \in {"garbled", "magic", "version"} THEN "BAD_REQUEST"
  ELSE IF hello.kind = "token" THEN "AUTH_FAIL"
  ELSE IF Forbidden(hello.ports) THEN "PORT_FORBIDDEN"
  ELSE "none"

\* the handler left at the parsing, the token or the port-range check
RefusedEarly(c) == conns[c].exit \in {"badHello", "authFail", "forbidden"}

\* C33: the handler checks parsing, the token, the port range and the reservation in
\* that order and answers BAD_REQUEST, AUTH_FAIL, PORT_FORBIDDEN or PORT_IN_USE for the
\* first check that fails; a connection refused at parsing, the token or the port range
\* never changes the registry, holds no reservation and has no listener bound.
C33_ChecksInOrder ==
  /\ [](\A c \in Conns :
          RefusedEarly(c) => /\ ~conns[c].reserved
                             /\ conns[c].tcpL = {} /\ conns[c].socksL = {}
                             /\ \A p \in Ports : <<c, p>> \notin grants)
  /\ [][\A c \in Conns :
          /\ \A hello \in Hellos :
               HHello(c, hello)
                 => /\ conns'[c].sent = FirstRefusal(hello)
                    /\ IF FirstRefusal(hello) = "none"
                       THEN conns'[c].pc = "reserve"
                       ELSE conns'[c].pc = "ret" /\ RefusedEarly(c)'
          /\ (conns[c].pc = "reserve" /\ conns'[c].pc # "reserve")
               => IF FirstInUse(slots, conns[c].ports) # 0
                  THEN conns'[c].sent = "PORT_IN_USE" /\ conns'[c].pc = "ret"
                  ELSE conns'[c].sent = "none" /\ conns'[c].pc = "listen"
          /\ (\/ conns[c].pc = "hello" /\ conns'[c].pc # "hello"
              \/ RefusedEarly(c) /\ conns'[c] # conns[c])
               => UNCHANGED <<slots, slotObj, closures, lis, grants>>]_vars

\* a connection was refused for its ports while another holds its reservation
C33_Witness ==
  \E d, e \in Conns :
    /\ conns[d].exit = "forbidden" /\ conns[d].sent = "PORT_FORBIDDEN"
    /\ conns[e].reserved
    /\ \E p \in Ports : slots[p] # 0 /\ <<e, p>> \in grants

\* C34: when every DecrementConnections follows a successful IncrementConnections of
\* the same caller on the same port, the counter of every slot stays at or above zero,
\* also when the port is released and then reserved and bound again between an
\* increment and its decrement.
C34_CountNeverNegative == \A s \in DOMAIN slotObj : slotObj[s].activeConns >= 0

\* C37: the first call of a release closure removes only slots that its own
\* ReservePorts call created, also when its ports were removed by ReleasePorts and
\* reserved again by another caller before that call.
C37_ClosureRemovesOwnSlots ==
  [][\A r \in Reservations :
       (~closures[r].released /\ closures'[r].released)
         => \A p \in Ports : (slots[p] # 0 /\ slots'[p] = 0) => slots[p] = SlotId(r, p)]_vars

\* the attempt of the restart loop is inside Client.Run
AttemptInProgress == manager.pc = "running" /\ client.pc \notin {"new", "returned"}

\* C35: once a call of Manager.Stop has returned (the goroutine watching the context
\* given to Start makes such a call), in whatever state the restart loop was, the
\* context of the running attempt is cancelled and the loop starts no new attempt,
\* until Start launches again.
C35_StopEndsRestartLoop ==
  /\ []((manager.asked /\ manager.extra = 0 /\ AttemptInProgress) => client.cancelled)
  /\ [][(manager.asked /\ manager.extra = 0)
          => ~(manager.pc = "top" /\ manager'.pc = "running")]_vars

\* C36: the manager never has two client loops at once: every Start that finds a
\* loop launched earlier still at work returns without launching another, two Start
\* calls that race included.
C36_OneClientAtATime == manager.extra = 0

\* C39: IsRunning() is true whenever an attempt started by the manager is in
\* progress and no Stop was called, the attempts that auto-restart starts after an
\* error included.
C39_RunningWhileAttempt ==
  (/\ AttemptInProgress
   /\ manager.stopPc = "idle" /\ ~manager.asked
   /\ manager.extra = 0)
    => manager.running

\* C40: a Start that fails the validation of its configuration leaves running and
\* port as they were.
C40_InvalidStartChangesNothing ==
  [][manager'.status = "configError"
       => (manager'.running = manager.running /\ manager'.port = manager.port)]_vars

\* C38: every connection the client opens to a target goes to an address that passed
\* the filter; for a host name it is the address that IsAllowed examined, the first
\* one the name resolves to.
C38_DialsTheCheckedAddress ==
  stream.dialedIP # <<>>
    => /\ IsAllowedIP(filter.af, stream.dialedIP) = "nil"
       /\ stream.dialedIP = stream.addr.ips[1]

====
